---- MODULE Spec2Model ----
(***************************************************************************)
(* A model of tinyexpr.c: the lexer (next_token), the recursive-descent    *)
(* parser (base, power, factor, term, expr, list), the constant folder     *)
(* (optimize), the evaluator (te_eval), te_compile, and the saturating     *)
(* combinatoric helpers fac, ncr, npr.                                     *)
(*                                                                         *)
(* Strings are sequences of one-character strings; the C string's          *)
(* terminating NUL is what CharAt returns past the end.  Nodes live in a   *)
(* heap (a sequence of records, a pointer is an index, NULL is 0) so that  *)
(* in-place rewrites, frees and allocation failures are what the code      *)
(* does.  A double is an exact rational where the arithmetic is exact and  *)
(* small, NaN, an infinity, or an uninterpreted term naming the operation  *)
(* and its operands (rounding is not modelled).                            *)
(***************************************************************************)
EXTENDS Integers, Sequences, FiniteSets, TLC

(***************************************************************************)
(* Bounds of the model.                                                    *)
(***************************************************************************)
\* The longest input, counted in words of the input alphabet.
MaxLen == 5
\* The longest input of the runs that make allocations and parses fail.
MaxLenErr == 4
\* The longest input of the runs on operator precedence.
MaxLenPrec == 5
\* The longest input of the runs on exponentiation.
MaxLenPow == 5
\* The longest input of the runs on identifiers.
MaxLenLex == 4
\* The longest input, in words, of the runs with failing allocations, and the
\* last allocation of a te_compile that may fail there.
MaxLenAlloc == 3
\* The longest input, in words, of the runs on calls.
MaxLenCall == 5
\* The longest input, in words, of the runs on parse errors.
MaxLenStuck == 4
\* The longest input, in words, of the runs on folding below calls.
MaxLenFold == 4
\* The longest input, in words, of the runs on the order of evaluation, and
\* the value up to which the host's counter is run.
MaxLenOrder == 3
\* The longest input, in words, of the runs on built-in names.
MaxLenBuiltin == 3
MaxCount == 8
MaxFailAlloc == 7
\* Rationals are kept exact while numerator and denominator stay within this.
MaxExact == 100000
\* The largest number of allocations after which malloc may be made to fail.
MaxFail == 4
\* UINT_MAX and ULONG_MAX of <limits.h>, scaled down to 4 and 8 bits.
UINT_MAX == 15
ULONG_MAX == 255

(***************************************************************************)
(* Characters.                                                             *)
(***************************************************************************)
NUL == ""

\* The characters of the model in ASCII order: Ord keeps the order of the
\* character codes, which is all strncmp's callers read.
Ascii ==
    << "\t", "\n", "\r", " ", "$", "%", "(", ")", "*", "+", ",", "-", ".", "/",
       "0", "1", "2", "3", "4", "5", "6", "7", "8", "9",
       "E", "X", "^", "_",
       "a", "b", "c", "d", "e", "f", "g", "h", "i", "j", "k", "l", "m",
       "n", "o", "p", "q", "r", "s", "t", "u", "v", "w", "x", "y", "z" >>

CharSet == {Ascii[i] : i \in 1..Len(Ascii)}

OrdTab == [c \in CharSet |-> CHOOSE i \in 1..Len(Ascii) : Ascii[i] = c]

Ord(c) == IF c = NUL THEN 0 ELSE OrdTab[c]

\* s[i] of a C string, i counted from 0.
CharAt(str, i) == IF i >= 0 /\ i < Len(str) THEN str[i + 1] ELSE NUL

isdigit(c) == c # NUL /\ Ord(c) >= Ord("0") /\ Ord(c) <= Ord("9")

isalpha(c) ==
    /\ c # NUL
    /\ \/ Ord(c) >= Ord("a") /\ Ord(c) <= Ord("z")
       \/ c \in {"E", "X"}

\* Op applied to v: v is named in Op and evaluated once.
Bind(v, Op(_)) == Op(v)

RECURSIVE strncmp_from(_, _, _, _, _)
strncmp_from(s1, o1, s2, n, i) ==
    IF i >= n THEN 0
    ELSE IF CharAt(s1, o1 + i) # CharAt(s2, i)
    THEN Ord(CharAt(s1, o1 + i)) - Ord(CharAt(s2, i))
    ELSE IF CharAt(s1, o1 + i) = NUL THEN 0
    ELSE strncmp_from(s1, o1, s2, n, i + 1)

\* strncmp(s1 + o1, s2, n): the sign is what the callers read.
strncmp(s1, o1, s2, n) == strncmp_from(s1, o1, s2, n, 0)

(***************************************************************************)
(* Doubles.                                                                *)
(***************************************************************************)
Abs(x) == IF x < 0 THEN -x ELSE x

RECURSIVE Gcd(_, _)
Gcd(a, b) == IF b = 0 THEN a ELSE Gcd(b, a % b)

Sym(f, args) == [k |-> f, n |-> 0, d |-> 1, a |-> args]

NAN == [k |-> "nan", n |-> 0, d |-> 1, a |-> <<>>]

INFINITY == [k |-> "inf", n |-> 1, d |-> 1, a |-> <<>>]

NEG_INFINITY == [k |-> "inf", n |-> -1, d |-> 1, a |-> <<>>]

\* The rational n/d (d > 0) in lowest terms.
Rat(n, d) ==
    Bind(Gcd(Abs(n), d), LAMBDA g :
        [k |-> "num", n |-> n \div g, d |-> d \div g, a |-> <<>>])

Num(n) == [k |-> "num", n |-> n, d |-> 1, a |-> <<>>]

IsNum(v) == v.k = "num"

IsInf(v) == v.k = "inf"

IsNan(v) == v.k = "nan"

Sign(x) == IF x < 0 THEN -1 ELSE IF x > 0 THEN 1 ELSE 0

\* x * y stays within MaxExact in absolute value.
MulFits(x, y) == y = 0 \/ Abs(x) <= MaxExact \div Abs(y)

\* n/d (d # 0, any sign) as a double, or the term t when it is not kept exact.
RatOr(n, d, t) ==
    IF Abs(n) <= MaxExact /\ Abs(d) <= MaxExact
    THEN Rat(Sign(d) * n, Abs(d))
    ELSE t

add(a, b) ==
    IF IsNan(a) \/ IsNan(b) THEN NAN
    ELSE IF IsInf(a) /\ IsInf(b) THEN (IF a.n = b.n THEN a ELSE NAN)
    ELSE IF IsInf(a) /\ IsNum(b) THEN a
    ELSE IF IsNum(a) /\ IsInf(b) THEN b
    ELSE IF IsNum(a) /\ IsNum(b)
            /\ MulFits(a.n, b.d) /\ MulFits(b.n, a.d) /\ MulFits(a.d, b.d)
         THEN RatOr(a.n * b.d + b.n * a.d, a.d * b.d, Sym("add", <<a, b>>))
    ELSE Sym("add", <<a, b>>)

negate(a) ==
    IF IsNan(a) THEN NAN
    ELSE IF IsInf(a) THEN [a EXCEPT !.n = -a.n]
    ELSE IF IsNum(a) THEN [a EXCEPT !.n = -a.n]
    ELSE Sym("negate", <<a>>)

sub(a, b) ==
    IF IsNan(a) \/ IsNan(b) THEN NAN
    ELSE IF IsInf(a) /\ IsInf(b) THEN (IF a.n # b.n THEN a ELSE NAN)
    ELSE IF IsInf(a) /\ IsNum(b) THEN a
    ELSE IF IsNum(a) /\ IsInf(b) THEN negate(b)
    ELSE IF IsNum(a) /\ IsNum(b)
            /\ MulFits(a.n, b.d) /\ MulFits(b.n, a.d) /\ MulFits(a.d, b.d)
         THEN RatOr(a.n * b.d - b.n * a.d, a.d * b.d, Sym("sub", <<a, b>>))
    ELSE Sym("sub", <<a, b>>)

mul(a, b) ==
    IF IsNan(a) \/ IsNan(b) THEN NAN
    ELSE IF (IsInf(a) /\ IsNum(b)) \/ (IsNum(a) /\ IsInf(b)) \/ (IsInf(a) /\ IsInf(b))
         THEN (IF a.n = 0 \/ b.n = 0 THEN NAN
               ELSE IF Sign(a.n) = Sign(b.n) THEN INFINITY ELSE NEG_INFINITY)
    ELSE IF IsNum(a) /\ IsNum(b) /\ MulFits(a.n, b.n) /\ MulFits(a.d, b.d)
         THEN RatOr(a.n * b.n, a.d * b.d, Sym("mul", <<a, b>>))
    ELSE Sym("mul", <<a, b>>)

divide(a, b) ==
    IF IsNan(a) \/ IsNan(b) THEN NAN
    ELSE IF IsInf(a) /\ IsInf(b) THEN NAN
    ELSE IF IsInf(a) /\ IsNum(b)
         THEN (IF Sign(a.n) * (IF b.n < 0 THEN -1 ELSE 1) > 0 THEN INFINITY ELSE NEG_INFINITY)
    ELSE IF IsNum(a) /\ IsInf(b) THEN Num(0)
    ELSE IF IsNum(a) /\ IsNum(b)
         THEN (IF b.n = 0
               THEN (IF a.n = 0 THEN NAN ELSE IF a.n > 0 THEN INFINITY ELSE NEG_INFINITY)
               ELSE IF MulFits(a.n, b.d) /\ MulFits(a.d, b.n)
               THEN RatOr(a.n * b.d, a.d * b.n, Sym("divide", <<a, b>>))
               ELSE Sym("divide", <<a, b>>))
    ELSE Sym("divide", <<a, b>>)

comma(a, b) == b

\* x^e for an integer e >= 0, or the term t when the result is not kept exact.
RECURSIVE IntPow(_, _, _, _)
IntPow(x, e, acc, t) ==
    IF e = 0 THEN Num(acc)
    ELSE IF MulFits(acc, x) THEN IntPow(x, e - 1, acc * x, t)
    ELSE t

pow(a, b) ==
    IF IsNum(b) /\ b.n = 0 THEN Num(1)
    ELSE IF IsNum(a) /\ a.n = 1 /\ a.d = 1 THEN Num(1)
    ELSE IF IsNan(a) \/ IsNan(b) THEN NAN
    ELSE IF IsNum(a) /\ IsNum(b) /\ a.d = 1 /\ b.d = 1 /\ b.n > 0
         THEN IntPow(a.n, b.n, 1, Sym("pow", <<a, b>>))
    ELSE Sym("pow", <<a, b>>)

\* fmod(a, b) has the sign of a: a - b * trunc(a / b).
fmod(a, b) ==
    IF IsNan(a) \/ IsNan(b) \/ IsInf(a) THEN NAN
    ELSE IF IsNum(b) /\ b.n = 0 THEN NAN
    ELSE IF IsNum(a) /\ IsInf(b) THEN a
    ELSE IF IsNum(a) /\ IsNum(b) /\ a.d = 1 /\ b.d = 1
         THEN Num(Sign(a.n) * (Abs(a.n) % Abs(b.n)))
    ELSE Sym("fmod", <<a, b>>)

\* a < b on doubles that are numbers or infinities (FALSE when either is not).
Lt(a, b) ==
    IF IsNum(a) /\ IsNum(b) THEN a.n * b.d < b.n * a.d
    ELSE IF IsInf(a) /\ IsNum(b) THEN a.n < 0
    ELSE IF IsNum(a) /\ IsInf(b) THEN b.n > 0
    ELSE IF IsInf(a) /\ IsInf(b) THEN a.n < b.n
    ELSE FALSE

\* (unsigned int)(a) for 0 <= a <= UINT_MAX: the fraction is discarded.
ToUnsigned(a) == a.n \div a.d

\* Unsigned long multiplication: the product modulo 2^w.
UMul(x, y) == (x * y) % (ULONG_MAX + 1)

\* fac_loop without the test against ULONG_MAX / result.
RECURSIVE fac_loop_wrapping(_, _, _)
fac_loop_wrapping(i, ua, result) ==
    IF i <= ua
    THEN fac_loop_wrapping(i + 1, ua, UMul(result, i))
    ELSE Num(result)

RECURSIVE fac_loop(_, _, _)
fac_loop(i, ua, result) ==
    IF i <= ua
    THEN IF i > ULONG_MAX \div result
         THEN INFINITY
         ELSE fac_loop(i + 1, ua, UMul(result, i))
    ELSE Num(result)

fac(a) ==
    IF ~(IsNum(a) \/ IsInf(a)) THEN Sym("fac", <<a>>)
    ELSE IF Lt(a, Num(0)) THEN NAN
    ELSE IF Lt(Num(UINT_MAX), a) THEN INFINITY
    ELSE fac_loop(1, ToUnsigned(a), 1)

RECURSIVE ncr_loop(_, _, _, _)
ncr_loop(i, un, ur, result) ==
    IF i <= ur
    THEN IF result > ULONG_MAX \div (un - ur + i)
         THEN INFINITY
         ELSE ncr_loop(i + 1, un, ur, UMul(result, un - ur + i) \div i)
    ELSE Num(result)

ncr(n, r) ==
    IF ~(IsNum(n) \/ IsInf(n)) \/ ~(IsNum(r) \/ IsInf(r)) THEN Sym("ncr", <<n, r>>)
    ELSE IF Lt(n, Num(0)) \/ Lt(r, Num(0)) \/ Lt(n, r) THEN NAN
    ELSE IF Lt(Num(UINT_MAX), n) \/ Lt(Num(UINT_MAX), r) THEN INFINITY
    ELSE Bind(ToUnsigned(n), LAMBDA un :
         Bind(ToUnsigned(r), LAMBDA ur :
            ncr_loop(1, un, IF ur > un \div 2 THEN un - ur ELSE ur, 1)))

npr(n, r) == mul(ncr(n, r), fac(r))

(***************************************************************************)
(* Node and token kinds.                                                   *)
(***************************************************************************)
\* The null pointer to a node (nodes are heap indices) and the null pointer to
\* anything else (the host's doubles and functions are named).
NULL == 0

NULLP == "0"

TE_VARIABLE == 0
TE_CONSTANT == 1
TE_FUNCTION0 == 8
TE_CLOSURE0 == 16
TE_FLAG_PURE == 32

TOK_NULL == 24
TOK_ERROR == 25
TOK_END == 26
TOK_SEP == 27
TOK_OPEN == 28
TOK_CLOSE == 29
TOK_NUMBER == 30
TOK_VARIABLE == 31
TOK_INFIX == 32

\* (TYPE) & 0x1F
TYPE_MASK(type) == type % 32

IS_PURE(type) == (type \div TE_FLAG_PURE) % 2 # 0

IS_FUNCTION(type) == (type \div TE_FUNCTION0) % 2 # 0

IS_CLOSURE(type) == (type \div TE_CLOSURE0) % 2 # 0

ARITY(type) == IF IS_FUNCTION(type) \/ IS_CLOSURE(type) THEN type % 8 ELSE 0

(***************************************************************************)
(* The built-in table and the two lookups.                                 *)
(***************************************************************************)
Builtin(name, address, arity) ==
    [name |-> name, address |-> address,
     type |-> TE_FUNCTION0 + arity + TE_FLAG_PURE, context |-> NULLP]

functions ==
    << Builtin(<<"a","b","s">>, "fabs", 1),
       Builtin(<<"a","c","o","s">>, "acos", 1),
       Builtin(<<"a","s","i","n">>, "asin", 1),
       Builtin(<<"a","t","a","n">>, "atan", 1),
       Builtin(<<"a","t","a","n","2">>, "atan2", 2),
       Builtin(<<"c","e","i","l">>, "ceil", 1),
       Builtin(<<"c","o","s">>, "cos", 1),
       Builtin(<<"c","o","s","h">>, "cosh", 1),
       Builtin(<<"e">>, "e", 0),
       Builtin(<<"e","x","p">>, "exp", 1),
       Builtin(<<"f","a","c">>, "fac", 1),
       Builtin(<<"f","l","o","o","r">>, "floor", 1),
       Builtin(<<"l","n">>, "log", 1),
       Builtin(<<"l","o","g">>, "log10", 1),
       Builtin(<<"l","o","g","1","0">>, "log10", 1),
       Builtin(<<"n","c","r">>, "ncr", 2),
       Builtin(<<"n","p","r">>, "npr", 2),
       Builtin(<<"p","i">>, "pi", 0),
       Builtin(<<"p","o","w">>, "pow", 2),
       Builtin(<<"s","i","n">>, "sin", 1),
       Builtin(<<"s","i","n","h">>, "sinh", 1),
       Builtin(<<"s","q","r","t">>, "sqrt", 1),
       Builtin(<<"t","a","n">>, "tan", 1),
       Builtin(<<"t","a","n","h">>, "tanh", 1) >>

\* find_builtin_loop without the comparison of functions[i].name[len].
RECURSIVE find_builtin_prefix(_, _, _, _, _)
find_builtin_prefix(str, name, len, imin, imax) ==
    IF imax >= imin
    THEN Bind(imin + ((imax - imin) \div 2), LAMBDA i :
         Bind(strncmp(str, name, functions[i + 1].name, len), LAMBDA c :
            IF c = 0 THEN i + 1
            ELSE IF c > 0 THEN find_builtin_prefix(str, name, len, i + 1, imax)
            ELSE find_builtin_prefix(str, name, len, imin, i - 1)))
    ELSE NULL

\* The binary search over functions[imin..imax] (indices from 0); the result
\* is the index of the entry found plus one, or NULL.
RECURSIVE find_builtin_loop(_, _, _, _, _)
\* if (!c) c = '\\0' - functions[i].name[len], c what strncmp returned.
find_builtin_c(c, i, len) ==
    IF c = 0 THEN 0 - Ord(CharAt(functions[i + 1].name, len)) ELSE c

\* The three ways on from the comparison c with functions[i].
find_builtin_step(str, name, len, imin, imax, i, c) ==
    IF c = 0 THEN i + 1
    ELSE IF c > 0 THEN find_builtin_loop(str, name, len, i + 1, imax)
    ELSE find_builtin_loop(str, name, len, imin, i - 1)

\* One turn of the loop at the middle entry i.
find_builtin_at(str, name, len, imin, imax, i) ==
    find_builtin_step(str, name, len, imin, imax, i,
        find_builtin_c(strncmp(str, name, functions[i + 1].name, len), i, len))

find_builtin_loop(str, name, len, imin, imax) ==
    IF imax >= imin
    THEN find_builtin_at(str, name, len, imin, imax, imin + ((imax - imin) \div 2))
    ELSE NULL

\* name is an offset into str.
find_builtin(str, name, len) ==
    find_builtin_loop(str, name, len, 0, (Len(functions) + 1) - 2)

\* find_lookup_loop keeping the last binding that matches.
RECURSIVE find_lookup_last(_, _, _, _, _)
find_lookup_last(s, name, len, var, iters) ==
    IF iters # 0
    THEN Bind(find_lookup_last(s, name, len, var + 1, iters - 1), LAMBDA later :
            IF later # NULL THEN later
            ELSE IF strncmp(s.start, name, s.lookup[var].name, len) = 0
                    /\ CharAt(s.lookup[var].name, len) = NUL
            THEN var
            ELSE NULL)
    ELSE NULL

\* The linear scan over the caller's bindings; the result is the index of the
\* first binding found (from 1), or NULL.
RECURSIVE find_lookup_loop(_, _, _, _, _)
find_lookup_loop(s, name, len, var, iters) ==
    IF iters # 0
    THEN IF strncmp(s.start, name, s.lookup[var].name, len) = 0
            /\ CharAt(s.lookup[var].name, len) = NUL
         THEN var
         ELSE find_lookup_loop(s, name, len, var + 1, iters - 1)
    ELSE NULL

\* A NULL table is the empty sequence.
find_lookup(s, name, len) ==
    IF Len(s.lookup) = 0 THEN NULL
    ELSE find_lookup_loop(s, name, len, 1, s.lookup_len)

(***************************************************************************)
(* The lexer.                                                              *)
(***************************************************************************)
RECURSIVE SkipDigits(_, _)
SkipDigits(str, p) == IF isdigit(CharAt(str, p)) THEN SkipDigits(str, p + 1) ELSE p

RECURSIVE DigitsVal(_, _, _, _)
DigitsVal(str, p, q, acc) ==
    IF p >= q THEN acc
    ELSE DigitsVal(str, p + 1, q, acc * 10 + (Ord(CharAt(str, p)) - Ord("0")))

RECURSIVE Pow10(_)
Pow10(k) == IF k <= 0 THEN 1 ELSE 10 * Pow10(k - 1)

\* strtod(str + p, &end) on a decimal literal: digits, an optional fraction and
\* an optional exponent.  With no digit nothing is converted: the value is 0
\* and end is p.  (Hexadecimal literals need "0x", which no input here holds.)
\* mant * 10^ex as a double.
Scaled(mant, ex) ==
    IF Abs(ex) > 4 THEN Sym("strtod", <<Num(mant), Num(ex)>>)
    ELSE IF ex >= 0 THEN Num(mant * Pow10(ex))
    ELSE Rat(mant, Pow10(-ex))

strtod(str, p) ==
    Bind(SkipDigits(str, p), LAMBDA i1 :
    Bind(CharAt(str, i1) = ".", LAMBDA hasDot :
    Bind(IF hasDot THEN SkipDigits(str, i1 + 1) ELSE i1, LAMBDA f1 :
    Bind(IF hasDot THEN f1 - (i1 + 1) ELSE 0, LAMBDA nfrac :
    Bind(CharAt(str, f1 + 1), LAMBDA sgn :
    Bind(IF sgn \in {"+", "-"} THEN f1 + 2 ELSE f1 + 1, LAMBDA e0 :
    Bind(SkipDigits(str, e0), LAMBDA e1 :
    Bind(CharAt(str, f1) \in {"e", "E"} /\ e1 > e0, LAMBDA hasExp :
    Bind(DigitsVal(str, i1 + 1, f1, DigitsVal(str, p, i1, 0)), LAMBDA mant :
    Bind((IF hasExp
          THEN (IF sgn = "-" THEN -1 ELSE 1) * DigitsVal(str, e0, e1, 0)
          ELSE 0) - nfrac, LAMBDA ex :
        IF (i1 - p) + nfrac = 0
        THEN [value |-> Num(0), end |-> p]
        ELSE [value |-> Scaled(mant, ex),
              end |-> IF hasExp THEN e1 ELSE f1]))))))))))

\* SkipIdent taking one character only.
SkipIdent_one(str, p) == p + 1

RECURSIVE SkipIdent(_, _)
SkipIdent(str, p) ==
    Bind(CharAt(str, p), LAMBDA c :
        IF isalpha(c) \/ isdigit(c) \/ c = "_" THEN SkipIdent(str, p + 1) ELSE p)

\* The token for the binding var (a te_variable): the switch on its kind.
TokenOf(s, var) ==
    Bind(TYPE_MASK(var.type), LAMBDA kind :
       IF kind = TE_VARIABLE
       THEN [s EXCEPT !.type = TOK_VARIABLE, !.bound = var.address]
       ELSE IF kind >= TE_CLOSURE0 /\ kind <= TE_CLOSURE0 + 7
       THEN [s EXCEPT !.context = var.context, !.type = var.type,
                      !.function = var.address]
       ELSE IF kind >= TE_FUNCTION0 /\ kind <= TE_FUNCTION0 + 7
       THEN [s EXCEPT !.type = var.type, !.function = var.address]
       ELSE s)

Infix(s, f) == [s EXCEPT !.type = TOK_INFIX, !.function = f]

\* A number: strtod returned r.
next_token_number(s, r) ==
    [s EXCEPT !.value = r.value, !.next = r.end, !.type = TOK_NUMBER]

\* The token of an identifier: v1 is what find_lookup returned, v2 what
\* find_builtin returns, which is asked when find_lookup found nothing.
next_token_var(s0, v1, v2) ==
    IF v1 # NULL THEN TokenOf(s0, s0.lookup[v1])
    ELSE IF v2 # NULL THEN TokenOf(s0, functions[v2])
    ELSE [s0 EXCEPT !.type = TOK_ERROR]

\* An identifier that began at start; s0.next is past it.
next_token_name(s0, start) ==
    next_token_var(s0, find_lookup(s0, start, s0.next - start),
                   find_builtin(s0.start, start, s0.next - start))

\* The switch on the character c, s0.next past it.
next_token_operator(s0, c) ==
    CASE c = "+" -> Infix(s0, "add")
      [] c = "-" -> Infix(s0, "sub")
      [] c = "*" -> Infix(s0, "mul")
      [] c = "/" -> Infix(s0, "divide")
      [] c = "^" -> Infix(s0, "pow")
      [] c = "%" -> Infix(s0, "fmod")
      [] c = "(" -> [s0 EXCEPT !.type = TOK_OPEN]
      [] c = ")" -> [s0 EXCEPT !.type = TOK_CLOSE]
      [] c = "," -> [s0 EXCEPT !.type = TOK_SEP]
      [] c \in {" ", "\t", "\n", "\r"} -> s0
      [] OTHER -> [s0 EXCEPT !.type = TOK_ERROR]

\* The body of the do-while when the character c at s.next is not NUL.
next_token_at(s, c) ==
    IF isdigit(c) \/ c = "."
    THEN next_token_number(s, strtod(s.start, s.next))
    ELSE IF isalpha(c)
    THEN next_token_name([s EXCEPT !.next = SkipIdent(s.start, s.next)], s.next)
    ELSE next_token_operator([s EXCEPT !.next = @ + 1], c)

RECURSIVE next_token_loop(_)
\* while (s->type == TOK_NULL)
next_token_while(s1) == IF s1.type = TOK_NULL THEN next_token_loop(s1) ELSE s1

\* One pass of the do-while body: s.type is TOK_NULL on entry.
next_token_loop(s) ==
    IF CharAt(s.start, s.next) = NUL THEN [s EXCEPT !.type = TOK_END]
    ELSE next_token_while(next_token_at(s, CharAt(s.start, s.next)))

\* s.trace records every assignment of s->type that outlives the call: the
\* token a call of next_token ends with and the type it was entered with.
next_token_read(t, was) ==
    [t EXCEPT !.trace = Append(@, [op |-> "read", type |-> t.type, was |-> was])]

next_token(s) == next_token_read(next_token_loop([s EXCEPT !.type = TOK_NULL]), s.type)

\* s->type = TOK_ERROR in a parse routine.
SetError(s) ==
    [s EXCEPT !.type = TOK_ERROR,
              !.trace = Append(@, [op |-> "set", type |-> TOK_ERROR, was |-> s.type])]

(***************************************************************************)
(* Nodes: allocation and release.  s carries the parser state of the C     *)
(* struct and, with it, the heap the call works on: heap (the nodes ever   *)
(* allocated, each with the number of times it was freed), mallocs (the    *)
(* calls of malloc so far) and fail_at (the call of malloc that returns    *)
(* NULL, 0 for none).                                                      *)
(***************************************************************************)
VARIABLES
    TE_POW_FROM_RIGHT,  \* the compile-time option: ^ associates to the right
    words,              \* the alphabet the host writes expressions in
    maxlen,             \* the most words the host writes
    typed,              \* the words of the expression handed to te_compile
    lookup,             \* the caller's bindings (te_variable[])
    fails,              \* the malloc calls the allocator may fail (0: none)
    fail_at,            \* the malloc call that failed in the last te_compile
    mem,                \* the host's doubles that variables are bound to
    pc,                 \* "edit", "ready" (a tree is held), "failed", "freed", "called"
    heap,               \* the nodes te_compile allocated
    root,               \* the tree te_compile returned, or NULL
    error,              \* *error as te_compile left it
    result,             \* what the last te_eval returned
    evalMem,            \* mem as it was at the last te_eval
    call                \* the last call of fac, ncr or npr: name, arguments

vars ==
    << TE_POW_FROM_RIGHT, words, maxlen, typed, lookup, fails, fail_at, mem, pc, heap,
       root, error, result, evalMem, call >>

TE_FUNCTION1 == TE_FUNCTION0 + 1

TE_FUNCTION2 == TE_FUNCTION0 + 2

Ret(s, ret) == [s |-> s, ret |-> ret]

new_expr(s, type, parameters) ==
    Bind(ARITY(type), LAMBDA arity :
        Bind([type |-> type, value |-> Num(0), bound |-> NULLP, function |-> NULLP,
                 parameters |->
                     [i \in 1..arity |->
                         IF i <= Len(parameters) THEN parameters[i] ELSE NULL],
                 context |-> NULLP,
                 freed |-> 0], LAMBDA node :
        Bind([s EXCEPT !.mallocs = @ + 1], LAMBDA s1 :
       IF s1.mallocs = s.fail_at
       THEN Ret(s1, NULL)
       ELSE Ret([s1 EXCEPT !.heap = Append(@, node)], Len(s.heap) + 1))))

\* The union of value, bound and function: writing one member.
SetValue(node, v) == [node EXCEPT !.value = v, !.bound = NULLP, !.function = NULLP]

SetBound(node, b) == [node EXCEPT !.bound = b, !.value = Num(0), !.function = NULLP]

SetFunction(node, f) == [node EXCEPT !.function = f, !.value = Num(0), !.bound = NULLP]

\* free(n)
free(h, n) == [h EXCEPT ![n].freed = @ + 1]

RECURSIVE te_free(_, _)
RECURSIVE te_free_from(_, _, _)
\* The fall-through cases of te_free_parameters: parameters[i], ..., parameters[0].
te_free_from(h, n, i) ==
    IF i < 0 THEN h
    ELSE te_free_from(te_free(h, h[n].parameters[i + 1]), n, i - 1)

te_free_parameters(h, n) ==
    IF n = NULL THEN h
    ELSE Bind(TYPE_MASK(h[n].type), LAMBDA kind :
            IF kind >= TE_FUNCTION0 + 1 /\ kind <= TE_CLOSURE0 + 7 /\ (kind % 8) # 0
            THEN te_free_from(h, n, (kind % 8) - 1)
            ELSE h)

te_free(h, n) ==
    IF n = NULL THEN h
    ELSE free(te_free_parameters(h, n), n)

\* CHECK_NULL(ptr, te_free(a)): the frees, then return NULL.
Fail1(s, a) == Ret([s EXCEPT !.heap = te_free(@, a)], NULL)

\* Fail2 freeing the second pointer only.
Fail2_leak(s, a, b) == Ret([s EXCEPT !.heap = te_free(@, b)], NULL)

Fail2(s, a, b) == Ret([s EXCEPT !.heap = te_free(te_free(@, a), b)], NULL)

(***************************************************************************)
(* The parser.                                                             *)
(***************************************************************************)
\* invoke(f, s) is the C call f(&s) of the parser function f, s as it is after
\* the call (and, but for next_token, the node returned).
RECURSIVE invoke(_, _)

\* s with ret->parameters[i] = e.ret, e what expr(s) returned.
Stored(e, ret, i) == [e.s EXCEPT !.heap[ret].parameters[i + 1] = e.ret]

\* What the for loop of a call leaves: the state, the node (NULL when
\* CHECK_NULL returned from base) and the index i.
Args(s, ret, i) == [s |-> s, ret |-> ret, i |-> i]

\* base_args reading on past the last parameter, the arguments in excess
\* dropped.
RECURSIVE base_args_excess(_, _, _, _)
base_args_excess_got(e, ret, arity, i) ==
    IF e.ret = NULL
    THEN Args([Stored(e, ret, i) EXCEPT !.heap = te_free(@, ret)], NULL, i)
    ELSE IF e.s.type # TOK_SEP
    THEN Args(Stored(e, ret, i), ret, i)
    ELSE base_args_excess(Stored(e, ret, i), ret, arity, i + 1)

base_args_excess_dropped(e, ret, arity, i) ==
    IF e.ret = NULL
    THEN Args([e.s EXCEPT !.heap = te_free(@, ret)], NULL, i)
    ELSE base_args_excess([e.s EXCEPT !.heap = te_free(@, e.ret)], ret, arity, i)

base_args_excess(s, ret, arity, i) ==
    IF i < arity
    THEN base_args_excess_got(invoke("expr", invoke("next_token", s)), ret, arity, i)
    ELSE IF s.type = TOK_SEP
    THEN base_args_excess_dropped(invoke("expr", invoke("next_token", s)), ret, arity, i)
    ELSE Args(s, ret, arity - 1)

\* base_args going on to the next argument after an argument that ended in
\* TOK_ERROR.
RECURSIVE base_args_resuming(_, _, _, _)
base_args_resuming_got(e, ret, arity, i) ==
    IF e.ret = NULL
    THEN Args([Stored(e, ret, i) EXCEPT !.heap = te_free(@, ret)], NULL, i)
    ELSE IF e.s.type # TOK_SEP /\ e.s.type # TOK_ERROR
    THEN Args(Stored(e, ret, i), ret, i)
    ELSE base_args_resuming(Stored(e, ret, i), ret, arity, i + 1)

base_args_resuming(s, ret, arity, i) ==
    IF i < arity
    THEN base_args_resuming_got(invoke("expr", invoke("next_token", s)), ret, arity, i)
    ELSE Args(s, ret, i)

RECURSIVE base_args(_, _, _, _)
\* The body of the for loop after ret->parameters[i] = expr(s), which
\* returned e: CHECK_NULL(ret->parameters[i], te_free(ret)), then the break
\* when the token is not TOK_SEP, or the next turn.
base_args_got(e, ret, arity, i) ==
    IF e.ret = NULL
    THEN Args([Stored(e, ret, i) EXCEPT !.heap = te_free(@, ret)], NULL, i)
    ELSE IF e.s.type # TOK_SEP
    THEN Args(Stored(e, ret, i), ret, i)
    ELSE base_args(Stored(e, ret, i), ret, arity, i + 1)

\* The for loop of a call with arity >= 2, from index i on.
base_args(s, ret, arity, i) ==
    IF i < arity
    THEN base_args_got(invoke("expr", invoke("next_token", s)), ret, arity, i)
    ELSE Args(s, ret, i)

\* ret->function = s->function, and for a closure the context, which the code
\* keeps in the slot behind the last child (parameters[arity]).
base_callee(s, ret, type, function, context) ==
    Bind([s EXCEPT !.heap[ret] = SetFunction(@, function)], LAMBDA s1 :
       IF IS_CLOSURE(type)
       THEN [s1 EXCEPT !.heap[ret].context = context]
       ELSE s1)

\* The callee is set in the node r made for the token of s, and the next
\* token is read.
base_named(s, r) ==
    invoke("next_token", base_callee(r.s, r.ret, s.type, s.function, s.context))

\* case TE_FUNCTION1, TE_CLOSURE1 after power(s), which returned p:
\* ret->parameters[0] = p, CHECK_NULL(ret->parameters[0], te_free(ret)).
base_unary_got(p, ret) ==
    IF p.ret = NULL THEN Fail1(Stored(p, ret, 0), ret) ELSE Ret(Stored(p, ret, 0), ret)

\* case TE_FUNCTION1, TE_CLOSURE1 after new_expr, which returned r.
base_unary(s, r) ==
    IF r.ret = NULL THEN r ELSE base_unary_got(invoke("power", base_named(s, r)), r.ret)

\* The call of arity >= 2 after its for loop, which left a: the test of ")"
\* and of the number of arguments.
base_call_closed(a, ret, arity) ==
    IF a.ret = NULL THEN Ret(a.s, NULL)
    ELSE IF a.s.type # TOK_CLOSE \/ a.i # arity - 1
    THEN Ret(SetError(a.s), ret)
    ELSE Ret(invoke("next_token", a.s), ret)

\* The call of arity >= 2 after its name, s3 the state with the next token.
base_call_open(s3, ret, arity) ==
    IF s3.type # TOK_OPEN
    THEN Ret(SetError(s3), ret)
    ELSE base_call_closed(base_args(s3, ret, arity, 0), ret, arity)

\* case TE_FUNCTION2 .. TE_CLOSURE7 after new_expr, which returned r.
base_call(s, r) ==
    IF r.ret = NULL THEN r ELSE base_call_open(base_named(s, r), r.ret, ARITY(s.type))

\* case TOK_OPEN after list(s): CHECK_NULL(ret), then the ")" of the list.
base_closed(r) ==
    IF r.ret = NULL THEN r
    ELSE IF r.s.type # TOK_CLOSE
    THEN Ret(SetError(r.s), r.ret)
    ELSE Ret(invoke("next_token", r.s), r.ret)

\* switch (TYPE_MASK(s->type)), kind the value switched on.
base_switch(s, kind) ==
       CASE kind = TOK_NUMBER ->
            Bind(new_expr(s, TE_CONSTANT, <<>>), LAMBDA r :
               IF r.ret = NULL THEN r
               ELSE Ret(invoke("next_token", [r.s EXCEPT !.heap[r.ret] = SetValue(@, s.value)]),
                        r.ret))
         [] kind = TOK_VARIABLE ->
            Bind(new_expr(s, TE_VARIABLE, <<>>), LAMBDA r :
               IF r.ret = NULL THEN r
               ELSE Ret(invoke("next_token", [r.s EXCEPT !.heap[r.ret] = SetBound(@, s.bound)]),
                        r.ret))
         [] kind = TE_FUNCTION0 \/ kind = TE_CLOSURE0 ->
            Bind(new_expr(s, s.type, <<>>), LAMBDA r :
               IF r.ret = NULL THEN r
               ELSE Bind(base_named(s, r), LAMBDA s3 :
                       IF s3.type = TOK_OPEN
                       THEN Bind(invoke("next_token", s3), LAMBDA s4 :
                               IF s4.type # TOK_CLOSE
                               THEN Ret(SetError(s4), r.ret)
                               ELSE Ret(invoke("next_token", s4), r.ret))
                       ELSE Ret(s3, r.ret)))
         [] kind = TE_FUNCTION0 + 1 \/ kind = TE_CLOSURE0 + 1 ->
            base_unary(s, new_expr(s, s.type, <<>>))
         [] (kind >= TE_FUNCTION0 + 2 /\ kind <= TE_FUNCTION0 + 7)
               \/ (kind >= TE_CLOSURE0 + 2 /\ kind <= TE_CLOSURE0 + 7) ->
            base_call(s, new_expr(s, s.type, <<>>))
         [] kind = TOK_OPEN -> base_closed(invoke("list", invoke("next_token", s)))
         [] OTHER ->
            Bind(new_expr(s, 0, <<>>), LAMBDA r :
               IF r.ret = NULL THEN r
               ELSE Ret([SetError(r.s) EXCEPT !.heap[r.ret] = SetValue(@, NAN)], r.ret))

base(s) == base_switch(s, TYPE_MASK(s.type))

\* The run of "+" and "-" in front of a <base>.
RECURSIVE power_signs(_, _)
power_signs(s, sign) ==
    IF s.type = TOK_INFIX /\ (s.function = "add" \/ s.function = "sub")
    THEN power_signs(invoke("next_token", s), IF s.function = "sub" THEN -sign ELSE sign)
    ELSE [s |-> s, sign |-> sign]

\* NEW_EXPR(TE_FUNCTION1 | TE_FLAG_PURE, b) with function negate, b freed
\* when the allocation fails.
Negated(s, b) ==
    Bind(new_expr(s, TE_FUNCTION1 + TE_FLAG_PURE, <<b>>), LAMBDA r :
       IF r.ret = NULL THEN Fail1(r.s, b)
       ELSE Ret([r.s EXCEPT !.heap[r.ret] = SetFunction(@, "negate")], r.ret))

\* CHECK_NULL(ret), then the negation of a base that followed an odd number
\* of minus signs.
power_negated(b) == IF b.ret = NULL THEN b ELSE Negated(b.s, b.ret)

\* base(s) after the signs w were read.
power_base(w) ==
    IF w.sign = 1 THEN invoke("base", w.s) ELSE power_negated(invoke("base", w.s))

power(s) == power_base(power_signs(s, 1))

\* ret = NEW_EXPR(TE_FUNCTION2 | TE_FLAG_PURE, ret, p) with function t; p and
\* the old ret are freed when the allocation fails.
Binary(s, ret, p, t) ==
    Bind(new_expr(s, TE_FUNCTION2 + TE_FLAG_PURE, <<ret, p>>), LAMBDA r :
       IF r.ret = NULL THEN Fail2(r.s, p, ret)
       ELSE Ret([r.s EXCEPT !.heap[r.ret] = SetFunction(@, t)], r.ret))

\* The while loop of factor without TE_POW_FROM_RIGHT.
RECURSIVE factor_loop(_, _)
\* CHECK_NULL(ret) after NEW_EXPR, which returned r; then the next turn.
factor_again(r) == IF r.ret = NULL THEN r ELSE factor_loop(r.s, r.ret)

\* The body of the loop after power(s), which returned p; t is the operator.
factor_joined(p, ret, t) ==
    IF p.ret = NULL THEN Fail1(p.s, ret) ELSE factor_again(Binary(p.s, ret, p.ret, t))

factor_loop(s, ret) ==
    IF s.type = TOK_INFIX /\ s.function = "pow"
    THEN factor_joined(invoke("power", invoke("next_token", s)), ret, s.function)
    ELSE Ret(s, ret)

\* The while loop of factor with TE_POW_FROM_RIGHT.
RECURSIVE factor_right_loop(_, _, _)
factor_right_loop(s, ret, insertion) ==
    IF s.type = TOK_INFIX /\ s.function = "pow"
    THEN Bind(s.function, LAMBDA t :
             Bind(invoke("power", invoke("next_token", s)), LAMBDA p :
            IF p.ret = NULL THEN Fail1(p.s, ret)
            ELSE IF insertion # NULL
            THEN Bind(new_expr(p.s, TE_FUNCTION2 + TE_FLAG_PURE,
                                   <<p.s.heap[insertion].parameters[2], p.ret>>),
                                        LAMBDA r :
                    IF r.ret = NULL THEN Fail2(r.s, p.ret, ret)
                    ELSE factor_right_loop(
                             [r.s EXCEPT !.heap[r.ret] = SetFunction(@, t),
                                         !.heap[insertion].parameters[2] = r.ret],
                             ret, r.ret))
            ELSE Bind(Binary(p.s, ret, p.ret, t), LAMBDA r :
                    IF r.ret = NULL THEN r
                    ELSE factor_right_loop(r.s, r.ret, r.ret))))
    ELSE Ret(s, ret)

factor_right(s) ==
    Bind(invoke("power", s), LAMBDA p :
       IF p.ret = NULL THEN p
       ELSE Bind(p.s.heap[p.ret], LAMBDA n :
                Bind(n.type = TE_FUNCTION1 + TE_FLAG_PURE /\ n.function = "negate",
                     LAMBDA neg :
                Bind(IF neg THEN [p.s EXCEPT !.heap = free(@, p.ret)] ELSE p.s,
                     LAMBDA s1 :
                Bind(IF neg THEN n.parameters[1] ELSE p.ret, LAMBDA ret :
                Bind(factor_right_loop(s1, ret, NULL), LAMBDA l :
               IF l.ret = NULL THEN l
               ELSE IF neg THEN Negated(l.s, l.ret)
               ELSE l))))))

\* CHECK_NULL(ret), then the while loop.
factor_rest(p) == IF p.ret = NULL THEN p ELSE factor_loop(p.s, p.ret)

factor_left(s) == factor_rest(invoke("power", s))

factor(s) == IF TE_POW_FROM_RIGHT THEN factor_right(s) ELSE factor_left(s)

\* term_loop taking "+" and "-" as well: one level for all five operators.
RECURSIVE term_loop_flat(_, _)
term_flat_again(r) == IF r.ret = NULL THEN r ELSE term_loop_flat(r.s, r.ret)

term_flat_joined(f, ret, t) ==
    IF f.ret = NULL THEN Fail1(f.s, ret) ELSE term_flat_again(Binary(f.s, ret, f.ret, t))

term_loop_flat(s, ret) ==
    IF s.type = TOK_INFIX /\ s.function \in {"mul", "divide", "fmod", "add", "sub"}
    THEN term_flat_joined(invoke("factor", invoke("next_token", s)), ret, s.function)
    ELSE Ret(s, ret)

RECURSIVE term_loop(_, _)
\* CHECK_NULL(ret) after NEW_EXPR, which returned r; then the next turn.
term_again(r) == IF r.ret = NULL THEN r ELSE term_loop(r.s, r.ret)

\* The body of the loop after factor(s), which returned f; t is the operator.
term_joined(f, ret, t) ==
    IF f.ret = NULL THEN Fail1(f.s, ret) ELSE term_again(Binary(f.s, ret, f.ret, t))

term_loop(s, ret) ==
    IF s.type = TOK_INFIX
       /\ (s.function = "mul" \/ s.function = "divide" \/ s.function = "fmod")
    THEN term_joined(invoke("factor", invoke("next_token", s)), ret, s.function)
    ELSE Ret(s, ret)

\* CHECK_NULL(ret), then the while loop.
term_rest(f) == IF f.ret = NULL THEN f ELSE term_loop(f.s, f.ret)

term(s) == term_rest(invoke("factor", s))

RECURSIVE expr_loop(_, _)
\* CHECK_NULL(ret) after NEW_EXPR, which returned r; then the next turn.
expr_again(r) == IF r.ret = NULL THEN r ELSE expr_loop(r.s, r.ret)

\* The body of the loop after term(s), which returned te; t is the operator.
expr_joined(te, ret, t) ==
    IF te.ret = NULL THEN Fail1(te.s, ret) ELSE expr_again(Binary(te.s, ret, te.ret, t))

expr_loop(s, ret) ==
    IF s.type = TOK_INFIX /\ (s.function = "add" \/ s.function = "sub")
    THEN expr_joined(invoke("term", invoke("next_token", s)), ret, s.function)
    ELSE Ret(s, ret)

\* CHECK_NULL(ret), then the while loop.
expr_rest(t) == IF t.ret = NULL THEN t ELSE expr_loop(t.s, t.ret)

expr(s) == expr_rest(invoke("term", s))

RECURSIVE list_loop(_, _)
\* CHECK_NULL(ret) after NEW_EXPR, which returned r; then the next turn.
list_again(r) == IF r.ret = NULL THEN r ELSE list_loop(r.s, r.ret)

\* The body of the loop after expr(s), which returned e.
list_joined(e, ret) ==
    IF e.ret = NULL THEN Fail1(e.s, ret) ELSE list_again(Binary(e.s, ret, e.ret, "comma"))

list_loop(s, ret) ==
    IF s.type = TOK_SEP
    THEN list_joined(invoke("expr", invoke("next_token", s)), ret)
    ELSE Ret(s, ret)

\* CHECK_NULL(ret), then the while loop.
list_rest(e) == IF e.ret = NULL THEN e ELSE list_loop(e.s, e.ret)

list(s) == list_rest(invoke("expr", s))

invoke(f, s) ==
    CASE f = "next_token" -> next_token(s)
      [] f = "base" -> base_switch(s, TYPE_MASK(s.type))
      [] f = "power" -> power_base(power_signs(s, 1))
      [] f = "factor" ->
            IF TE_POW_FROM_RIGHT THEN factor_right(s) ELSE factor_rest(invoke("power", s))
      [] f = "term" -> term_rest(invoke("factor", s))
      [] f = "expr" -> expr_rest(invoke("term", s))
      [] f = "list" -> list_rest(invoke("expr", s))

(***************************************************************************)
(* The evaluator and the constant folder.                                  *)
(***************************************************************************)
Floor(a) == IF IsNum(a) THEN Num(a.n \div a.d) ELSE IF IsInf(a) \/ IsNan(a) THEN a
            ELSE Sym("floor", <<a>>)

Ceil(a) == IF IsNum(a) THEN Num(-((-a.n) \div a.d)) ELSE IF IsInf(a) \/ IsNan(a) THEN a
           ELSE Sym("ceil", <<a>>)

Fabs(a) == IF IsNum(a) \/ IsInf(a) THEN [a EXCEPT !.n = Abs(a.n)]
           ELSE IF IsNan(a) THEN a ELSE Sym("fabs", <<a>>)

\* The call through n->function of a function node: the operators, the
\* built-ins that are computed here, and every other callee (the
\* transcendental built-ins, the host's own functions) left uninterpreted.
Call(function, args) ==
    CASE function = "add" -> add(args[1], args[2])
      [] function = "sub" -> sub(args[1], args[2])
      [] function = "mul" -> mul(args[1], args[2])
      [] function = "divide" -> divide(args[1], args[2])
      [] function = "pow" -> pow(args[1], args[2])
      [] function = "fmod" -> fmod(args[1], args[2])
      [] function = "negate" -> negate(args[1])
      [] function = "comma" -> comma(args[1], args[2])
      [] function = "fac" -> fac(args[1])
      [] function = "ncr" -> ncr(args[1], args[2])
      [] function = "npr" -> npr(args[1], args[2])
      [] function = "fabs" -> Fabs(args[1])
      [] function = "floor" -> Floor(args[1])
      [] function = "ceil" -> Ceil(args[1])
      [] OTHER -> Sym(function, args)

\* The call of a closure: the context is its first argument.  host_read is
\* the host's closure that returns the double its context points to.
CallClosure(function, context, args, m) ==
    IF function = "host_read" THEN m[context]
    ELSE Sym(function, <<Sym(context, <<>>)>> \o args)

RECURSIVE te_eval(_, _, _)
te_eval(h, m, n) ==
    IF n = NULL THEN NAN
    ELSE Bind(h[n], LAMBDA node :
             Bind(TYPE_MASK(node.type), LAMBDA kind :
             Bind(ARITY(node.type), LAMBDA arity :
             Bind([e \in 1..arity |-> te_eval(h, m, node.parameters[e])], LAMBDA M :
            IF kind = TE_CONSTANT THEN node.value
            ELSE IF kind = TE_VARIABLE THEN m[node.bound]
            ELSE IF kind >= TE_FUNCTION0 /\ kind <= TE_FUNCTION0 + 7
            THEN Call(node.function, M)
            ELSE IF kind >= TE_CLOSURE0 /\ kind <= TE_CLOSURE0 + 7
            THEN CallClosure(node.function, node.context, M, m)
            ELSE NAN))))

\* The orders a build may evaluate the arguments of a call of k parameters
\* in: C leaves the order of M(0), ..., M(k-1) in one call unspecified.
ArgumentOrders(k) ==
    { p \in [1..k -> 1..k] : \A i \in 1..k, j \in 1..k : i # j => p[i] # p[j] }

\* The order M(0), M(1), ..., M(k-1).
LeftToRight(k) == [i \in 1..k |-> i]

\* The callee of a node called on the values M with the host's doubles m:
\* the value returned and the doubles after the call.  host_next is the
\* host's closure that adds 1 to the double its context points to and
\* returns it; the other callees write nothing.
CallIn(node, M, m) ==
    IF node.function = "host_next"
    THEN [value |-> add(m[node.context], Num(1)),
          m |-> [m EXCEPT ![node.context] = add(@, Num(1))]]
    ELSE IF IS_CLOSURE(node.type)
    THEN [value |-> CallClosure(node.function, node.context, M, m), m |-> m]
    ELSE [value |-> Call(node.function, M), m |-> m]

RECURSIVE te_eval_in(_, _, _, _)
RECURSIVE eval_args(_, _, _, _, _, _)
\* The arguments of the call at n, evaluated in the order order[arity] from
\* its t-th on.
eval_args(h, m, n, order, t, M) ==
    IF t > ARITY(h[n].type) THEN [M |-> M, m |-> m]
    ELSE Bind(order[ARITY(h[n].type)][t], LAMBDA e :
         Bind(te_eval_in(h, m, h[n].parameters[e], order), LAMBDA r :
            eval_args(h, r.m, n, order, t + 1, [M EXCEPT ![e] = r.value])))

\* te_eval(n) where callees may write the host's doubles: the value and the
\* doubles after it.  order[k] is the order the build evaluates the arguments
\* of a call of k parameters in.
te_eval_in(h, m, n, order) ==
    IF n = NULL THEN [value |-> NAN, m |-> m]
    ELSE Bind(TYPE_MASK(h[n].type), LAMBDA kind :
            IF kind = TE_CONSTANT THEN [value |-> h[n].value, m |-> m]
            ELSE IF kind = TE_VARIABLE THEN [value |-> m[h[n].bound], m |-> m]
            ELSE IF kind >= TE_FUNCTION0 /\ kind <= TE_CLOSURE0 + 7
            THEN Bind(eval_args(h, m, n, order, 1,
                                [e \in 1..ARITY(h[n].type) |-> NAN]), LAMBDA a :
                    CallIn(h[n], a.M, a.m))
            ELSE [value |-> NAN, m |-> m])

RECURSIVE optimize(_, _, _)
\* optimize_loop with the recursive call left out: a child is only looked at.
optimize_loop_norec(h, m, n, arity, i, known) ==
    [h |-> h,
     known |-> known /\ \A j \in 1..arity : h[h[n].parameters[j]].type = TE_CONSTANT]

\* optimize_loop with known assigned from the child instead of cleared: only
\* the last child decides.
RECURSIVE optimize_loop_lastknown(_, _, _, _, _, _)
optimize_loop_lastknown(h, m, n, arity, i, known) ==
    IF i < arity
    THEN Bind(optimize(h, m, h[n].parameters[i + 1]), LAMBDA h1 :
            optimize_loop_lastknown(h1, m, n, arity, i + 1,
                h1[h1[n].parameters[i + 1]].type = TE_CONSTANT))
    ELSE [h |-> h, known |-> known]

\* The for loop of optimize from parameter i on: the heap and known.
RECURSIVE optimize_loop(_, _, _, _, _, _)
optimize_loop(h, m, n, arity, i, known) ==
    IF i < arity
    THEN Bind(optimize(h, m, h[n].parameters[i + 1]), LAMBDA h1 :
            optimize_loop(h1, m, n, arity, i + 1,
                known /\ h1[h1[n].parameters[i + 1]].type = TE_CONSTANT))
    ELSE [h |-> h, known |-> known]

optimize(h, m, n) ==
    IF h[n].type = TE_CONSTANT THEN h
    ELSE IF h[n].type = TE_VARIABLE THEN h
    ELSE IF IS_PURE(h[n].type)
    THEN Bind(optimize_loop(h, m, n, ARITY(h[n].type), 0, TRUE), LAMBDA l :
            IF l.known
            THEN Bind(te_eval(l.h, m, n), LAMBDA value :
                     Bind(te_free_parameters(l.h, n), LAMBDA h2 :
                    [h2 EXCEPT ![n] = SetValue([@ EXCEPT !.type = TE_CONSTANT], value)]))
            ELSE l.h)
    ELSE h

(***************************************************************************)
(* te_compile.                                                             *)
(***************************************************************************)
\* The state te_compile starts from and the heap fields that go with it.
StartState(expr_, variables, var_count, fail) ==
    [start |-> expr_, next |-> 0, type |-> TOK_NULL,
     value |-> Num(0), bound |-> NULLP, function |-> NULLP, context |-> NULLP,
     lookup |-> variables, lookup_len |-> var_count,
     heap |-> <<>>, mallocs |-> 0, fail_at |-> fail, trace |-> <<>>]

\* next_token(&s); root = list(&s): the parse, before anything is freed or folded.
Parse(expr_, variables, var_count, fail) ==
    list(next_token(StartState(expr_, variables, var_count, fail)))

\* te_compile reporting s.next - s.start as it is, 0 included.
te_compile_noremap(expr_, variables, var_count, fail, m) ==
    Bind(Parse(expr_, variables, var_count, fail), LAMBDA p :
       IF p.ret = NULL
       THEN [root |-> NULL, error |-> -1, heap |-> p.s.heap]
       ELSE IF p.s.type # TOK_END
       THEN [root |-> NULL, error |-> p.s.next - 0, heap |-> te_free(p.s.heap, p.ret)]
       ELSE [root |-> p.ret, error |-> 0, heap |-> optimize(p.s.heap, m, p.ret)])

\* te_compile returning the tree whatever type the parse ended with.
te_compile_unchecked(expr_, variables, var_count, fail, m) ==
    Bind(Parse(expr_, variables, var_count, fail), LAMBDA p :
       IF p.ret = NULL
       THEN [root |-> NULL, error |-> -1, heap |-> p.s.heap]
       ELSE IF p.s.type # TOK_END
       THEN [root |-> p.ret,
             error |-> IF p.s.next - 0 = 0 THEN 1 ELSE p.s.next - 0,
             heap |-> p.s.heap]
       ELSE [root |-> p.ret, error |-> 0, heap |-> optimize(p.s.heap, m, p.ret)])

te_compile(expr_, variables, var_count, fail, m) ==
    Bind(Parse(expr_, variables, var_count, fail), LAMBDA p :
       IF p.ret = NULL
       THEN [root |-> NULL, error |-> -1, heap |-> p.s.heap]
       ELSE IF p.s.type # TOK_END
       THEN [root |-> NULL,
             error |-> IF p.s.next - 0 = 0 THEN 1 ELSE p.s.next - 0,
             heap |-> te_free(p.s.heap, p.ret)]
       ELSE [root |-> p.ret, error |-> 0, heap |-> optimize(p.s.heap, m, p.ret)])

(***************************************************************************)
(* The host program: its doubles, its bindings, the expressions it writes. *)
(***************************************************************************)
Cells == {"&x", "&y"}

Variable(name, cell) ==
    [name |-> name, address |-> cell, type |-> TE_VARIABLE, context |-> NULLP]

\* The host's table.  x is bound twice and sin is bound as a variable; f is a
\* closure without the pure flag, g a function without it, h a pure function
\* of two arguments and k a pure closure of three.
HostTable ==
    << Variable(<<"x">>, "&x"),
       Variable(<<"y">>, "&y"),
       Variable(<<"x">>, "&y"),
       Variable(<<"s","i","n">>, "&y"),
       [name |-> <<"f">>, address |-> "host_read", type |-> TE_CLOSURE0,
        context |-> "&y"],
       [name |-> <<"g">>, address |-> "host_g", type |-> TE_FUNCTION0 + 1,
        context |-> NULLP],
       [name |-> <<"h">>, address |-> "host_h",
        type |-> TE_FUNCTION2 + TE_FLAG_PURE, context |-> NULLP],
       [name |-> <<"k">>, address |-> "host_k",
        type |-> TE_CLOSURE0 + 3 + TE_FLAG_PURE, context |-> "&x"] >>

\* The same bindings with the two bindings of x in the other order.
HostTableSwapped ==
    [i \in 1..Len(HostTable) |->
        IF i = 1 THEN HostTable[3] ELSE IF i = 3 THEN HostTable[1] ELSE HostTable[i]]

\* What the host stores into its doubles.
StoreValues == {Num(2), Num(3)}

InitMem == [c \in Cells |-> IF c = "&x" THEN Num(2) ELSE Num(3)]

RECURSIVE Text(_)
\* The characters of a sequence of words.
Text(ws) == IF ws = <<>> THEN <<>> ELSE Head(ws) \o Text(Tail(ws))

expression == Text(typed)

WordsMain == { <<"2">>, <<"x">>, <<"+">>, <<"f">>, <<"f","a","c"," ">> }

NoCall == [name |-> "none", args |-> <<>>]

\* result before any te_eval.
NoResult == Sym("none", <<>>)

InitWith(W, N, Ls, F, Rs) ==
    /\ words = W
    /\ maxlen = N
    /\ lookup \in Ls
    /\ fails = F
    /\ TE_POW_FROM_RIGHT \in Rs
    /\ typed = <<>>
    /\ fail_at = 0
    /\ mem = InitMem
    /\ pc = "edit"
    /\ heap = <<>>
    /\ root = NULL
    /\ error = 0
    /\ result = NoResult
    /\ evalMem = InitMem
    /\ call = NoCall

Init == InitWith(WordsMain, MaxLen, {HostTable}, {0}, {FALSE})

\* The host writes one more word of the expression.
Type(w) ==
    /\ pc = "edit"
    /\ Len(typed) < maxlen
    /\ typed' = Append(typed, w)
    /\ UNCHANGED << TE_POW_FROM_RIGHT, words, maxlen, lookup, fails, fail_at, mem, pc, heap,
                    root, error, result, evalMem, call >>

\* root = te_compile(expression, lookup, count, &error)
Compile ==
    /\ pc = "edit"
    /\ \E f \in fails :
          LET c == te_compile(expression, lookup, Len(lookup), f, mem)
          IN /\ fail_at' = f
             /\ heap' = c.heap
             /\ root' = c.root
             /\ error' = c.error
             /\ pc' = IF c.root # NULL THEN "ready" ELSE "failed"
    /\ UNCHANGED << TE_POW_FROM_RIGHT, words, maxlen, typed, lookup, fails, mem, result,
                    evalMem, call >>

\* The host assigns one of its doubles.
Store(c, v) ==
    /\ pc = "ready"
    /\ mem' = [mem EXCEPT ![c] = v]
    /\ UNCHANGED << TE_POW_FROM_RIGHT, words, maxlen, typed, lookup, fails, fail_at, pc, heap,
                    root, error, result, evalMem, call >>

\* result = te_eval(root)
Eval ==
    /\ pc = "ready"
    /\ result' = te_eval(heap, mem, root)
    /\ evalMem' = mem
    /\ UNCHANGED << TE_POW_FROM_RIGHT, words, maxlen, typed, lookup, fails, fail_at, mem, pc,
                    heap, root, error, call >>

\* te_free(root)
Free ==
    /\ pc = "ready"
    /\ heap' = te_free(heap, root)
    /\ pc' = "freed"
    /\ UNCHANGED << TE_POW_FROM_RIGHT, words, maxlen, typed, lookup, fails, fail_at, mem, root,
                    error, result, evalMem, call >>

Next ==
    \/ \E w \in words : Type(w)
    \/ Compile
    \/ \E c \in Cells, v \in StoreValues : Store(c, v)
    \/ Eval
    \/ Free

Spec == Init /\ [][Next]_vars

(***************************************************************************)
(* What the claims are stated with.                                        *)
(***************************************************************************)
\* The parse of the expression before anything is folded or freed.
Unoptimized == Parse(expression, lookup, Len(lookup), fail_at)

RECURSIVE Subtree(_, _)
\* The nodes of the tree at n.
Subtree(h, n) ==
    IF n = NULL THEN {}
    ELSE {n} \cup UNION {Subtree(h, h[n].parameters[i]) : i \in 1..Len(h[n].parameters)}

IsVariableNode(h, k) == TYPE_MASK(h[k].type) = TE_VARIABLE

IsCallNode(h, k) == IS_FUNCTION(h[k].type) \/ IS_CLOSURE(h[k].type)

HasVariable(h, n) == \E k \in Subtree(h, n) : IsVariableNode(h, k)

HasImpure(h, n) == \E k \in Subtree(h, n) : IsCallNode(h, k) /\ ~IS_PURE(h[k].type)

\* The tree at root is one constant node: every other node of the heap was
\* freed once and the root was not.
SingleConstant ==
    /\ heap[root].type = TE_CONSTANT
    /\ heap[root].freed = 0
    /\ \A k \in 1..Len(heap) : k # root => heap[k].freed = 1

Typed(ws) == typed = ws

(***************************************************************************)
(* C3 as stated: an expression without variables that compiles is folded   *)
(* to a single constant node whose value is what te_eval returns on the    *)
(* unoptimized tree.  It fails for an expression that calls a function or  *)
(* closure registered without the pure flag.                               *)
(***************************************************************************)
C3_NoVariablesFolds ==
    (pc = "ready" /\ ~HasVariable(Unoptimized.s.heap, Unoptimized.ret))
        => /\ SingleConstant
           /\ heap[root].value = te_eval(Unoptimized.s.heap, mem, Unoptimized.ret)

(***************************************************************************)
(* C3 amended: an expression with no variable and no function or closure   *)
(* registered without the pure flag, if it compiles, is folded to a single *)
(* constant node whose value is what te_eval returns on the unoptimized    *)
(* tree.                                                                   *)
(***************************************************************************)
C3_PureNoVariablesFolds ==
    (/\ pc = "ready"
     /\ ~HasVariable(Unoptimized.s.heap, Unoptimized.ret)
     /\ ~HasImpure(Unoptimized.s.heap, Unoptimized.ret))
        => /\ SingleConstant
           /\ heap[root].value = te_eval(Unoptimized.s.heap, mem, Unoptimized.ret)

\* "fac 2+fac 2" was compiled: five nodes were parsed and the tree is the
\* constant 4.
C3_Witness ==
    /\ pc = "ready"
    /\ Typed(<< <<"f","a","c"," ">>, <<"2">>, <<"+">>, <<"f","a","c"," ">>, <<"2">> >>)
    /\ Len(heap) = 5
    /\ SingleConstant
    /\ heap[root].value = Num(4)

(***************************************************************************)
(* C4: whatever the host stored into its variables between the calls,      *)
(* te_eval returns the value of the unoptimized expression under the       *)
(* values the variables had at the call; and no node whose subtree holds a *)
(* variable node was folded or freed by te_compile.                        *)
(***************************************************************************)
C4_EvalSeesCurrentValues ==
    pc = "ready" =>
        /\ result # NoResult
              => result = te_eval(Unoptimized.s.heap, evalMem, Unoptimized.ret)
        /\ \A k \in Subtree(Unoptimized.s.heap, Unoptimized.ret) :
              HasVariable(Unoptimized.s.heap, k)
                  => /\ heap[k].type = Unoptimized.s.heap[k].type
                     /\ heap[k].freed = 0

\* "fac 2+x" was compiled with x = 2: fac 2 was folded and the sum was not;
\* then x was set to 3, and te_eval returned 5.
C4_Witness ==
    /\ pc = "ready"
    /\ Typed(<< <<"f","a","c"," ">>, <<"2">>, <<"+">>, <<"x">> >>)
    /\ heap[1].type = TE_CONSTANT
    /\ heap[root].type = TE_FUNCTION2 + TE_FLAG_PURE
    /\ evalMem["&x"] = Num(3)
    /\ result = Num(5)

(***************************************************************************)
(* Failing compiles: inputs with stray characters, unbalanced parentheses  *)
(* and unbound names, with and without bindings, and an allocator that     *)
(* fails at a chosen call.                                                 *)
(***************************************************************************)
WordsErr == { <<"1">>, <<"x">>, <<"+">>, <<"(", "1">>, <<")">>, <<"$">> }

InitErr == InitWith(WordsErr, MaxLenErr, {HostTable, <<>>}, 0..MaxFail, {FALSE})

SpecErr == InitErr /\ [][Next]_vars

\* The parse of the expression by an allocator that never fails.
Unfailing == Parse(expression, lookup, Len(lookup), 0)

\* The malloc call chosen to fail was reached by the parse.
AllocationFailed == fail_at # 0 /\ fail_at <= Unfailing.s.mallocs

Compiled == pc \in {"ready", "failed"}

(***************************************************************************)
(* C1: after te_compile, a tree is returned exactly when the error         *)
(* position is 0; with no tree the position is -1 if an allocation failed  *)
(* and otherwise the offset at which the lexer stood, between 1 and the    *)
(* length of the input, an offset of 0 being reported as 1.                *)
(***************************************************************************)
C1_ErrorPositionConsistent ==
    Compiled =>
        /\ root # NULL <=> error = 0
        /\ root # NULL <=> pc = "ready"
        /\ root = NULL =>
              IF AllocationFailed
              THEN error = -1
              ELSE /\ error = (IF Unfailing.s.next = 0 THEN 1 ELSE Unfailing.s.next)
                   /\ error >= 1
                   /\ error <= (IF Len(expression) = 0 THEN 1 ELSE Len(expression))
                   /\ Unfailing.s.type # TOK_END

\* The empty input was compiled without an allocation failure: the lexer
\* stood at offset 0 and the position reported is 1.
C1_Witness ==
    /\ pc = "failed"
    /\ expression = <<>>
    /\ ~AllocationFailed
    /\ Unfailing.s.next = 0
    /\ root = NULL
    /\ error = 1

(***************************************************************************)
(* Trees without their addresses.                                          *)
(***************************************************************************)
NoTree ==
    [type |-> -1, value |-> Num(0), bound |-> NULLP, function |-> NULLP,
     context |-> NULLP, parameters |-> <<>>]

RECURSIVE TreeOf(_, _)
\* The tree at n: what each node holds and, for a call, its children.
TreeOf(h, n) ==
    IF n = NULL THEN NoTree
    ELSE [type |-> h[n].type, value |-> h[n].value, bound |-> h[n].bound,
          function |-> h[n].function, context |-> h[n].context,
          parameters |-> [i \in 1..ARITY(h[n].type) |-> TreeOf(h, h[n].parameters[i])]]

\* The call node of a binary operator over the trees l and r.
BinaryTree(f, l, r) ==
    [type |-> TE_FUNCTION2 + TE_FLAG_PURE, value |-> Num(0), bound |-> NULLP,
     function |-> f, context |-> NULLP, parameters |-> <<l, r>>]

\* The call node of negate over the tree l.
NegateTree(l) ==
    [type |-> TE_FUNCTION1 + TE_FLAG_PURE, value |-> Num(0), bound |-> NULLP,
     function |-> "negate", context |-> NULLP, parameters |-> <<l>>]

\* The unoptimized tree of the words ws.
ParsedTree(ws) ==
    Bind(Parse(Text(ws), lookup, Len(lookup), 0), LAMBDA p : TreeOf(p.s.heap, p.ret))

\* The tree te_compile returns for the words ws.
CompiledTree(ws) ==
    Bind(te_compile(Text(ws), lookup, Len(lookup), 0, mem), LAMBDA c :
        TreeOf(c.heap, c.root))

\* What te_eval returns, under the memory m, on the tree compiled for ws.
ValueOf(ws, m) ==
    Bind(te_compile(Text(ws), lookup, Len(lookup), 0, mem), LAMBDA c :
        te_eval(c.heap, m, c.root))

OperatorFunction(w) ==
    CASE w = <<"+">> -> "add"
      [] w = <<"-">> -> "sub"
      [] w = <<"*">> -> "mul"
      [] w = <<"/">> -> "divide"
      [] w = <<"%">> -> "fmod"
      [] w = <<"^">> -> "pow"

(***************************************************************************)
(* Precedence: three operands joined by two of the operators + - * / %.    *)
(***************************************************************************)
Operands == { <<"2">>, <<"(", "x", "-", "2", ")">> }

Additive == { <<"+">>, <<"-">> }

Multiplicative == { <<"*">>, <<"/">>, <<"%">> }

InitPrec ==
    InitWith(Operands \cup Additive \cup Multiplicative, MaxLenPrec, {HostTable}, {0},
             {FALSE})

SpecPrec == InitPrec /\ [][Next]_vars

\* The input is a o1 b o2 c.
ThreeOperands ==
    /\ Len(typed) = 5
    /\ typed[1] \in Operands /\ typed[3] \in Operands /\ typed[5] \in Operands
    /\ typed[2] \in Additive \cup Multiplicative
    /\ typed[4] \in Additive \cup Multiplicative

\* o2 binds tighter than o1.
Tighter == typed[2] \in Additive /\ typed[4] \in Multiplicative

\* The input with the parentheses the ladder implies written out.
Grouped ==
    IF Tighter
    THEN << typed[1], typed[2], <<"(">>, typed[3], typed[4], typed[5], <<")">> >>
    ELSE << <<"(">>, typed[1], typed[2], typed[3], <<")">>, typed[4], typed[5] >>

\* The tree the ladder implies, over the trees of the operands.
LadderTree ==
    IF Tighter
    THEN BinaryTree(OperatorFunction(typed[2]), ParsedTree(<<typed[1]>>),
             BinaryTree(OperatorFunction(typed[4]), ParsedTree(<<typed[3]>>),
                        ParsedTree(<<typed[5]>>)))
    ELSE BinaryTree(OperatorFunction(typed[4]),
             BinaryTree(OperatorFunction(typed[2]), ParsedTree(<<typed[1]>>),
                        ParsedTree(<<typed[3]>>)),
             ParsedTree(<<typed[5]>>))

(***************************************************************************)
(* C2: for operands a, b, c, the tree parsed for a o1 b o2 c is o1(a,      *)
(* o2(b, c)) when o1 is + or - and o2 is *, / or %, and o2(o1(a, b), c)    *)
(* otherwise (a left fold); it is the tree parsed for the input with those *)
(* parentheses written out, te_compile returns the same tree for both, and *)
(* te_eval returns the same value on both under every binding.             *)
(***************************************************************************)
C2_PrecedenceLadder ==
    (Compiled /\ ThreeOperands) =>
        /\ pc = "ready"
        /\ TreeOf(Unoptimized.s.heap, Unoptimized.ret) = LadderTree
        /\ ParsedTree(Grouped) = LadderTree
        /\ TreeOf(heap, root) = CompiledTree(Grouped)
        /\ result # NoResult => result = ValueOf(Grouped, evalMem)

\* "2+(x-2)*2" was compiled to add(2, mul(sub(x, 2), 2)) and, with x set to
\* 3, evaluated to 4.
C2_Witness ==
    /\ pc = "ready"
    /\ Typed(<< <<"2">>, <<"+">>, <<"(", "x", "-", "2", ")">>, <<"*">>, <<"2">> >>)
    /\ heap[root].function = "add"
    /\ heap[heap[root].parameters[2]].function = "mul"
    /\ evalMem["&x"] = Num(3)
    /\ result = Num(4)

(***************************************************************************)
(* Exponentiation: a^b^c and -a^b over operands that are a number, a       *)
(* variable or a parenthesized negative number, in both build modes.       *)
(***************************************************************************)
PowOperands == { <<"2">>, <<"3">>, <<"x">>, <<"(", "-", "2", ")">> }

InitPow ==
    InitWith(PowOperands \cup { <<"^">>, <<"-">> }, MaxLenPow, {HostTable}, {0},
             {FALSE, TRUE})

SpecPow == InitPow /\ [][Next]_vars

\* The input is a^b^c.
PowChain ==
    /\ Len(typed) = 5
    /\ typed[1] \in PowOperands /\ typed[3] \in PowOperands /\ typed[5] \in PowOperands
    /\ typed[2] = <<"^">> /\ typed[4] = <<"^">>

\* The input is -a^b.
NegatedPow ==
    /\ Len(typed) = 4
    /\ typed[1] = <<"-">> /\ typed[3] = <<"^">>
    /\ typed[2] \in PowOperands /\ typed[4] \in PowOperands

\* The value of the operand w under the memory m.
OperandValue(w, m) == ValueOf(<<w>>, m)

\* The tree and the value the selected mode gives a^b^c.
PowChainTree ==
    IF TE_POW_FROM_RIGHT
    THEN BinaryTree("pow", ParsedTree(<<typed[1]>>),
             BinaryTree("pow", ParsedTree(<<typed[3]>>), ParsedTree(<<typed[5]>>)))
    ELSE BinaryTree("pow",
             BinaryTree("pow", ParsedTree(<<typed[1]>>), ParsedTree(<<typed[3]>>)),
             ParsedTree(<<typed[5]>>))

PowChainValue(m) ==
    IF TE_POW_FROM_RIGHT
    THEN pow(OperandValue(typed[1], m),
             pow(OperandValue(typed[3], m), OperandValue(typed[5], m)))
    ELSE pow(pow(OperandValue(typed[1], m), OperandValue(typed[3], m)),
             OperandValue(typed[5], m))

\* The tree and the value the selected mode gives -a^b.
NegatedPowTree ==
    IF TE_POW_FROM_RIGHT
    THEN NegateTree(BinaryTree("pow", ParsedTree(<<typed[2]>>), ParsedTree(<<typed[4]>>)))
    ELSE BinaryTree("pow", NegateTree(ParsedTree(<<typed[2]>>)), ParsedTree(<<typed[4]>>))

NegatedPowValue(m) ==
    IF TE_POW_FROM_RIGHT
    THEN negate(pow(OperandValue(typed[2], m), OperandValue(typed[4], m)))
    ELSE pow(negate(OperandValue(typed[2], m)), OperandValue(typed[4], m))

\* The operand w is a negation in parentheses.
ParenthesizedNegation(w) == ParsedTree(<<w>>).function = "negate"

PowAsSelected ==
    /\ (Compiled /\ PowChain) =>
          /\ pc = "ready"
          /\ TreeOf(Unoptimized.s.heap, Unoptimized.ret) = PowChainTree
          /\ result # NoResult => result = PowChainValue(evalMem)
    /\ (Compiled /\ NegatedPow) =>
          /\ pc = "ready"
          /\ TreeOf(Unoptimized.s.heap, Unoptimized.ret) = NegatedPowTree
          /\ result # NoResult => result = NegatedPowValue(evalMem)

(***************************************************************************)
(* C6 as stated: for all operands a, b, c, without TE_POW_FROM_RIGHT       *)
(* a^b^c is parsed as (a^b)^c and -a^b as (-a)^b, and with it a^b^c is     *)
(* parsed as a^(b^c) and -a^b as -(a^b); te_eval returns the value of that *)
(* grouping.  With TE_POW_FROM_RIGHT it fails for a first operand that is  *)
(* a negation in parentheses: (-2)^2^3 is parsed as -(2^(2^3)).            *)
(***************************************************************************)
C6_PowAssociativity == PowAsSelected

\* The same over first operands that are not a negation in parentheses.
C6_PowAssociativityPlainBase ==
    (Len(typed) >= 4
     /\ ~ParenthesizedNegation(IF typed[1] = <<"-">> THEN typed[2] ELSE typed[1]))
        => PowAsSelected

\* "2^3^2" was compiled with TE_POW_FROM_RIGHT and evaluated to 512.
C6_Witness ==
    /\ pc = "ready"
    /\ TE_POW_FROM_RIGHT
    /\ Typed(<< <<"2">>, <<"^">>, <<"3">>, <<"^">>, <<"2">> >>)
    /\ result = Num(512)

\* The input is (-a)^b: a negation in parentheses raised to an operand.
ParenthesizedBasePow ==
    /\ Len(typed) = 3
    /\ typed[1] \in PowOperands /\ ParenthesizedNegation(typed[1])
    /\ typed[2] = <<"^">>
    /\ typed[3] \in PowOperands

\* (-a)^b is the power of the negation: its tree and its value.
BaseKeepsNegation ==
    (Compiled /\ ParenthesizedBasePow) =>
        /\ pc = "ready"
        /\ TreeOf(Unoptimized.s.heap, Unoptimized.ret)
              = BinaryTree("pow", ParsedTree(<<typed[1]>>), ParsedTree(<<typed[3]>>))
        /\ result # NoResult
              => result = pow(OperandValue(typed[1], evalMem), OperandValue(typed[3], evalMem))

(***************************************************************************)
(* C15: with TE_POW_FROM_RIGHT a negation in parentheses keeps its         *)
(* grouping as the base of a power: (-a)^b is parsed as pow(negate(a), b)  *)
(* and evaluates to pow(-a, b), so (-2)^2 is 4.                            *)
(***************************************************************************)
C15_ParenthesizedNegationKept == TE_POW_FROM_RIGHT => BaseKeepsNegation

\* Without TE_POW_FROM_RIGHT the grouping is kept.
C15_KeptByDefault == ~TE_POW_FROM_RIGHT => BaseKeepsNegation

\* "(-2)^2" was compiled with TE_POW_FROM_RIGHT to negate(pow(2, 2)) and
\* evaluated to -4.
C15_Witness ==
    /\ pc = "ready"
    /\ TE_POW_FROM_RIGHT
    /\ Typed(<< <<"(", "-", "2", ")">>, <<"^">>, <<"2">> >>)
    /\ TreeOf(Unoptimized.s.heap, Unoptimized.ret)
          = NegateTree(BinaryTree("pow", ParsedTree(<< <<"2">> >>), ParsedTree(<< <<"2">> >>)))
    /\ result = Num(-4)

(***************************************************************************)
(* Identifiers: names that are bound once, twice, not at all, that are     *)
(* built-ins or extend one, under the host's table, the table with the two *)
(* bindings of x exchanged, and no table.                                  *)
(***************************************************************************)
WordsLex ==
    { <<"x">>, <<"s","i","n">>, <<"h">>, <<"o">>, <<"+">>, <<" ">> }

InitLex ==
    InitWith(WordsLex, MaxLenLex, {HostTable, HostTableSwapped, <<>>}, {0, 1}, {FALSE})

SpecLex == InitLex /\ [][Next]_vars

Blank(c) == c \in {" ", "\t", "\n", "\r"}

IdentChar(c) == isalpha(c) \/ isdigit(c) \/ c = "_"

\* Offsets count from 0, as s.next - s.start does.
FirstNonBlank(str) ==
    CHOOSE p \in 0..Len(str) :
        /\ ~Blank(CharAt(str, p))
        /\ \A k \in 0..(p - 1) : Blank(CharAt(str, k))

\* The offset just past the identifier that starts at p.
IdentEnd(str, p) ==
    CHOOSE q \in p..Len(str) :
        /\ ~IdentChar(CharAt(str, q))
        /\ \A k \in p..(q - 1) : IdentChar(CharAt(str, k))

\* The offsets at which an identifier starts.
IdentStarts(str) ==
    { p \in 0..(Len(str) - 1) :
        /\ isalpha(CharAt(str, p))
        /\ p > 0 => ~IdentChar(CharAt(str, p - 1)) /\ CharAt(str, p - 1) # "." }

NameAt(str, p) == SubSeq(str, p + 1, IdentEnd(str, p))

Bound(name) == \E i \in 1..Len(lookup) : lookup[i].name = name

\* The earliest binding of name in the caller's table.
FirstBinding(name) ==
    lookup[CHOOSE i \in 1..Len(lookup) :
               /\ lookup[i].name = name
               /\ \A j \in 1..(i - 1) : lookup[j].name # name]

BuiltIn(name) == \E j \in 1..Len(functions) : functions[j].name = name

BuiltInOf(name) == functions[CHOOSE j \in 1..Len(functions) : functions[j].name = name]

\* The token next_token reads when the lexer stands at offset p.
TokenAt(p) ==
    next_token([StartState(expression, lookup, Len(lookup), 0) EXCEPT !.next = p])

\* The token is the one the table entry e stands for.
TokenIs(tok, e) ==
    IF TYPE_MASK(e.type) = TE_VARIABLE
    THEN tok.type = TOK_VARIABLE /\ tok.bound = e.address
    ELSE /\ tok.type = e.type
         /\ tok.function = e.address
         /\ IS_CLOSURE(e.type) => tok.context = e.context

(***************************************************************************)
(* C5: an identifier resolves to the earliest caller binding with exactly  *)
(* its name, to the built-in of that name only when no caller binding has  *)
(* it, and to nothing otherwise; so an input that is the name of a bound   *)
(* variable compiles to a variable node on the address of the earliest     *)
(* binding, and te_eval returns what that address holds.                   *)
(***************************************************************************)
C5_FirstMatchWins ==
    /\ \A p \in IdentStarts(expression) :
          /\ TokenAt(p).next = IdentEnd(expression, p)
          /\ IF Bound(NameAt(expression, p))
             THEN TokenIs(TokenAt(p), FirstBinding(NameAt(expression, p)))
             ELSE IF BuiltIn(NameAt(expression, p))
             THEN TokenIs(TokenAt(p), BuiltInOf(NameAt(expression, p)))
             ELSE TokenAt(p).type = TOK_ERROR
    /\ (/\ Compiled /\ fail_at = 0
        /\ Bound(expression)
        /\ TYPE_MASK(FirstBinding(expression).type) = TE_VARIABLE)
          => /\ pc = "ready"
             /\ heap[root].type = TE_VARIABLE
             /\ heap[root].bound = FirstBinding(expression).address
             /\ result # NoResult => result = evalMem[FirstBinding(expression).address]

\* With the bindings of x exchanged, "x" was compiled to a variable on &y,
\* which is the earlier binding there, and evaluated to what &y held.
C5_Witness ==
    /\ pc = "ready"
    /\ lookup = HostTableSwapped
    /\ expression = <<"x">>
    /\ heap[root].bound = "&y"
    /\ evalMem = [InitMem EXCEPT !["&x"] = Num(3), !["&y"] = Num(2)]
    /\ result = Num(2)

\* The input starts, after blanks, with an identifier that no caller binding
\* and no built-in has.
StartsWithUnknownIdentifier ==
    /\ FirstNonBlank(expression) \in IdentStarts(expression)
    /\ ~Bound(NameAt(expression, FirstNonBlank(expression)))
    /\ ~BuiltIn(NameAt(expression, FirstNonBlank(expression)))

(***************************************************************************)
(* C9 as stated: compiling an input whose first token is an identifier     *)
(* that is neither bound nor built in fails with error position 1.         *)
(***************************************************************************)
C9_UnknownIdentifierAtOne ==
    (Compiled /\ fail_at = 0 /\ StartsWithUnknownIdentifier)
        => pc = "failed" /\ error = 1

(***************************************************************************)
(* C9 amended: compiling an input whose first token is an identifier that  *)
(* is neither bound nor built in fails, no allocation failing, with the    *)
(* error position just past that identifier: the number of blanks in front *)
(* of it plus its length.                                                  *)
(***************************************************************************)
C9_UnknownIdentifierAtItsEnd ==
    (Compiled /\ fail_at = 0 /\ StartsWithUnknownIdentifier)
        => /\ pc = "failed"
           /\ root = NULL
           /\ error = IdentEnd(expression, FirstNonBlank(expression))
           /\ error >= 1

\* " xo+" was compiled under the host's table: xo is unknown and the
\* position reported is 3.
C9_Witness ==
    /\ pc = "failed"
    /\ lookup = HostTable
    /\ expression = <<" ", "x", "o", "+">>
    /\ fail_at = 0
    /\ StartsWithUnknownIdentifier
    /\ error = 3

(***************************************************************************)
(* Failing compiles: inputs that end in a parse error or in a failed       *)
(* allocation, at every allocation of the parse, with either factor.       *)
(***************************************************************************)
WordsAlloc ==
    { <<"1">>, <<"-">>, <<"^", "1">>, <<"k", "(", "1">>, <<",", "1">>, <<"g", "(", "1">>,
      <<")">> }

InitAlloc ==
    InitWith(WordsAlloc, MaxLenAlloc, {HostTable}, 0..MaxFailAlloc, {FALSE, TRUE})

SpecAlloc == InitAlloc /\ [][Next]_vars

\* The nodes of h that have a child slot still empty.
PartiallyFilled(h) ==
    { n \in 1..Len(h) : \E i \in 1..ARITY(h[n].type) : h[n].parameters[i] = NULL }

(***************************************************************************)
(* C7: when te_compile returns no tree, after a failed allocation or after *)
(* a parse error, every node allocated during the call has been freed      *)
(* exactly once, nodes with empty child slots included; the allocations    *)
(* are those of the parse up to the failing one.                           *)
(***************************************************************************)
C7_NoNodeOutlivesFailedCompile ==
    (Compiled /\ root = NULL)
        => /\ pc = "failed"
           /\ error # 0
           /\ \A n \in 1..Len(heap) : heap[n].freed = 1
           /\ Len(heap) = IF AllocationFailed THEN fail_at - 1 ELSE Unfailing.s.mallocs

\* "k(1,1" was compiled with the third allocation failing: the node of k had
\* one child and two empty slots when it was freed with that child.
C7_Witness ==
    /\ pc = "failed"
    /\ expression = <<"k", "(", "1", ",", "1">>
    /\ fail_at = 3
    /\ error = -1
    /\ Len(heap) = 2
    /\ PartiallyFilled(heap) = {1}
    /\ heap[1].parameters[1] = 2
    /\ \A n \in 1..2 : heap[n].freed = 1

(***************************************************************************)
(* Calls of pow (built in, two arguments) and k (a closure of the host,    *)
(* three arguments): with and without "(", with any number of arguments,   *)
(* with and without ")".                                                   *)
(***************************************************************************)
WordsCall ==
    { <<"p","o","w","(","1">>, <<"k","(","1">>, <<"p","o","w"," ">>, <<"1">>, <<",","1">>,
      <<")">> }

InitCall == InitWith(WordsCall, MaxLenCall, {HostTable}, {0}, {FALSE})

SpecCall == InitCall /\ [][Next]_vars

\* What the identifier at offset p resolves to.
Resolved(p) ==
    IF Bound(NameAt(expression, p)) THEN FirstBinding(NameAt(expression, p))
    ELSE BuiltInOf(NameAt(expression, p))

\* The offsets at which the name of a function or closure of two or more
\* arguments starts.
CallStarts ==
    { p \in IdentStarts(expression) :
        /\ Bound(NameAt(expression, p)) \/ BuiltIn(NameAt(expression, p))
        /\ ARITY(Resolved(p).type) >= 2 }

\* The first offset from p on that holds no blank.
NonBlankFrom(p) ==
    CHOOSE q \in p..Len(expression) :
        /\ ~Blank(CharAt(expression, q))
        /\ \A k \in p..(q - 1) : Blank(CharAt(expression, k))

\* The number of offsets in o..r that hold c.
CountIn(o, r, c) == Cardinality({ i \in o..r : CharAt(expression, i) = c })

\* How many parentheses opened in o..r are still open after r.
Depth(o, r) == CountIn(o, r, "(") - CountIn(o, r, ")")

\* The offsets of the ")" that closes the "(" at offset o: one or none.
Closing(o) ==
    { q \in (o + 1)..(Len(expression) - 1) :
        /\ Depth(o, q) = 0
        /\ \A r \in o..(q - 1) : Depth(o, r) > 0 }

\* The commas between the "(" at o and the ")" at q that separate the
\* arguments of that call.
Separators(o, q) ==
    { r \in (o + 1)..(q - 1) : CharAt(expression, r) = "," /\ Depth(o, r) = 1 }

\* The call whose name starts at p is not of the form name "(" k arguments
\* separated by commas ")".
Malformed(p) ==
    \/ CharAt(expression, NonBlankFrom(IdentEnd(expression, p))) # "("
    \/ Closing(NonBlankFrom(IdentEnd(expression, p))) = {}
    \/ \E q \in Closing(NonBlankFrom(IdentEnd(expression, p))) :
          Cardinality(Separators(NonBlankFrom(IdentEnd(expression, p)), q))
              # ARITY(Resolved(p).type) - 1

(***************************************************************************)
(* C8: an input in which the name of a function or closure of k >= 2       *)
(* arguments is not followed by "(", k arguments separated by commas, and  *)
(* ")" (too few or too many arguments, no "(", no ")") does not compile:   *)
(* te_compile returns no tree and an error position that is not 0.         *)
(***************************************************************************)
C8_CallNeedsExactArity ==
    (Compiled /\ \E p \in CallStarts : Malformed(p))
        => /\ pc = "failed"
           /\ root = NULL
           /\ error >= 1

\* "pow(1)" was compiled: one argument for two, no tree, position 6.
C8_Witness ==
    /\ pc = "failed"
    /\ expression = <<"p", "o", "w", "(", "1", ")">>
    /\ CallStarts = {0}
    /\ Malformed(0)
    /\ root = NULL
    /\ error = 6

\* "k(1,1,1)" was compiled and evaluated: a tree whose root has three
\* children and the context of k.
C8_WellFormedCallCompiled ==
    /\ pc = "ready"
    /\ expression = <<"k", "(", "1", ",", "1", ",", "1", ")">>
    /\ ~Malformed(0)
    /\ heap[root].context = "&x"
    /\ result # NoResult

(***************************************************************************)
(* fac, ncr and npr called, once, on the halves from below 0 to above      *)
(* UINT_MAX and on the two infinities.                                     *)
(***************************************************************************)
MathValues ==
    { Rat(k, 2) : k \in (-3)..(2 * UINT_MAX + 5) } \cup {INFINITY, NEG_INFINITY}

\* result = fac(a)
CallFac(a) ==
    /\ pc = "edit"
    /\ call' = [name |-> "fac", args |-> <<a>>]
    /\ result' = fac(a)
    /\ pc' = "called"
    /\ UNCHANGED << TE_POW_FROM_RIGHT, words, maxlen, typed, lookup, fails, fail_at, mem,
                    heap, root, error, evalMem >>

\* result = ncr(n, r)
CallNcr(n, r) ==
    /\ pc = "edit"
    /\ call' = [name |-> "ncr", args |-> <<n, r>>]
    /\ result' = ncr(n, r)
    /\ pc' = "called"
    /\ UNCHANGED << TE_POW_FROM_RIGHT, words, maxlen, typed, lookup, fails, fail_at, mem,
                    heap, root, error, evalMem >>

\* result = npr(n, r)
CallNpr(n, r) ==
    /\ pc = "edit"
    /\ call' = [name |-> "npr", args |-> <<n, r>>]
    /\ result' = npr(n, r)
    /\ pc' = "called"
    /\ UNCHANGED << TE_POW_FROM_RIGHT, words, maxlen, typed, lookup, fails, fail_at, mem,
                    heap, root, error, evalMem >>

InitMath == InitWith({}, 0, {<<>>}, {0}, {FALSE})

NextMath ==
    \/ \E a \in MathValues : CallFac(a)
    \/ \E n \in MathValues, r \in MathValues : CallNcr(n, r)
    \/ \E n \in MathValues, r \in MathValues : CallNpr(n, r)

SpecMath == InitMath /\ [][NextMath]_vars

\* The arguments of the last call.
Arg(i) == call.args[i]

Negative(a) == Lt(a, Num(0))

\* a is beyond the range of unsigned int.
ExceedsUnsigned(a) == Lt(Num(UINT_MAX), a)

\* The integer part of a number that is not negative.
Truncated(a) == CHOOSE k \in 0..(a.n \div a.d) : k * a.d <= a.n /\ a.n < (k + 1) * a.d

\* k!, or some value above ULONG_MAX once a product on the way to k! is.
RECURSIVE Factorial(_)
Factorial(k) ==
    IF k = 0 THEN 1
    ELSE Bind(Factorial(k - 1), LAMBDA f : IF f > ULONG_MAX THEN f ELSE f * k)

\* Row n of Pascal's triangle: Binomials(n)[k + 1] is n over k.
RECURSIVE Binomials(_)
Binomials(n) ==
    IF n = 0 THEN <<1>>
    ELSE Bind(Binomials(n - 1), LAMBDA above :
            [k \in 1..(n + 1) |->
                (IF k > 1 THEN above[k - 1] ELSE 0) + (IF k <= n THEN above[k] ELSE 0)])

Binomial(n, k) == Binomials(n)[k + 1]

Smaller(a, b) == IF a < b THEN a ELSE b

\* Every product on the way to n over r, taken over the smaller of r and
\* n - r factors as ncr takes it, fits unsigned long.
BinomialFits(n, r) ==
    \A i \in 1..Smaller(r, n - r) :
        Binomial(n - Smaller(r, n - r) + i - 1, i - 1) * (n - Smaller(r, n - r) + i)
            <= ULONG_MAX

\* What fac is to return for an argument that is not negative.
FacSaturating(a) ==
    IF IsInf(a) \/ ExceedsUnsigned(a) THEN INFINITY
    ELSE IF Factorial(Truncated(a)) > ULONG_MAX THEN INFINITY
    ELSE Num(Factorial(Truncated(a)))

\* What ncr is to return for 0 <= r <= n.
NcrSaturating(n, r) ==
    IF IsInf(n) \/ IsInf(r) \/ ExceedsUnsigned(n) \/ ExceedsUnsigned(r) THEN INFINITY
    ELSE IF ~BinomialFits(Truncated(n), Truncated(r)) THEN INFINITY
    ELSE Num(Binomial(Truncated(n), Truncated(r)))

\* An argument of the last call of ncr or npr is beyond unsigned int, or a
\* product of the loops is beyond unsigned long.
Overflows ==
    \/ ExceedsUnsigned(Arg(1)) \/ ExceedsUnsigned(Arg(2))
    \/ /\ ~Negative(Arg(1)) /\ ~Negative(Arg(2)) /\ ~Lt(Arg(1), Arg(2))
       /\ \/ ~BinomialFits(Truncated(Arg(1)), Truncated(Arg(2)))
          \/ call.name = "npr" /\ Factorial(Truncated(Arg(2))) > ULONG_MAX

\* fac as C10 has it.
FacAsStated ==
    call.name = "fac"
        => IF Negative(Arg(1)) THEN result = NAN ELSE result = FacSaturating(Arg(1))

C10_NaNBeyondRange ==
    /\ call = [name |-> "ncr", args |-> <<Num(5), Num(UINT_MAX + 2)>>]
    /\ result = NAN

\* npr(7.5, 3) was called: 35 * 6.
C10_ExactProduct ==
    /\ call = [name |-> "npr", args |-> <<Rat(15, 2), Num(3)>>]
    /\ result = Num(210)

(***************************************************************************)
(* Parse errors of every origin: a character that is no token, a name that *)
(* nothing binds, a call of h (two arguments) with too few or too many, a  *)
(* parenthesis left open, an operand left out.                             *)
(***************************************************************************)
WordsStuck ==
    { <<"1">>, <<"+">>, <<"(", "1">>, <<")">>, <<"$">>, <<"o">>, <<"h", "(", "1">>, <<",">> }

InitStuck == InitWith(WordsStuck, MaxLenStuck, {HostTable}, {0, 1}, {FALSE})

SpecStuck == InitStuck /\ [][Next]_vars

\* The assignments of s->type during the parse of the expression, in order.
TypeTrace == Unoptimized.s.trace

\* The positions of the trace at which the type became TOK_ERROR.
ErrorsIn(tr) == { i \in 1..Len(tr) : tr[i].type = TOK_ERROR }

(***************************************************************************)
(* C11: once s->type is TOK_ERROR during te_compile, set by next_token or  *)
(* by a parse routine, next_token is not called again and the type is      *)
(* assigned nothing but TOK_ERROR; the parse ends with type TOK_ERROR, and *)
(* te_compile returns no tree and an error that is not 0.                  *)
(***************************************************************************)
C11_ErrorAbsorbing ==
    /\ \A i \in ErrorsIn(TypeTrace) :
          \A j \in (i + 1)..Len(TypeTrace) :
              /\ TypeTrace[j].op = "set"
              /\ TypeTrace[j].type = TOK_ERROR
              /\ TypeTrace[j].was = TOK_ERROR
    /\ ErrorsIn(TypeTrace) # {}
          => /\ Unoptimized.s.type = TOK_ERROR
             /\ Compiled => pc = "failed" /\ root = NULL /\ error # 0

\* "h(1,$," was compiled: the type became TOK_ERROR with the fifth token read,
\* was set to it twice more by base, and the last "," was never read.
C11_Witness ==
    /\ pc = "failed"
    /\ fail_at = 0
    /\ expression = <<"h", "(", "1", ",", "$", ",">>
    /\ Len(TypeTrace) = 7
    /\ ErrorsIn(TypeTrace) = {5, 6, 7}
    /\ TypeTrace[5].op = "read"
    /\ error = 5

(***************************************************************************)
(* Folding below calls: numbers, x, negations and a sum of numbers, as     *)
(* operands and as the argument of g, which the host registered without    *)
(* the pure flag.                                                          *)
(***************************************************************************)
WordsFold ==
    { <<"g">>, <<"-">>, <<"2">>, <<"x">>, <<"+">>, <<"(", "2", "+", "2", ")">> }

InitFold == InitWith(WordsFold, MaxLenFold, {HostTable}, {0}, {FALSE})

SpecFold == InitFold /\ [][Next]_vars

RECURSIVE Nodes(_, _)
\* The nodes of the tree at n; the children of a node are those of its type.
Nodes(h, n) ==
    {n} \cup UNION { Nodes(h, h[n].parameters[i]) : i \in 1..ARITY(h[n].type) }

\* The pure calls in the tree at n whose children are all constant nodes.
Foldable(h, n) ==
    { k \in Nodes(h, n) :
        /\ IsCallNode(h, k) /\ IS_PURE(h[k].type)
        /\ \A i \in 1..ARITY(h[k].type) : h[h[k].parameters[i]].type = TE_CONSTANT }

\* The nodes of the tree at n that lie below a call without the pure flag.
BelowImpure(h, n) ==
    UNION { Nodes(h, a) \ {a} :
              a \in { k \in Nodes(h, n) : IsCallNode(h, k) /\ ~IS_PURE(h[k].type) } }

(***************************************************************************)
(* C12: in every tree te_compile returns, no pure function or closure node *)
(* is left whose children are all constant nodes, wherever it sits in the  *)
(* tree, below a call without the pure flag included.                      *)
(***************************************************************************)
C12_NoFoldableNodeLeft ==
    pc = "ready" => Foldable(heap, root) = {}

\* What optimize does: the pure calls left with constant children are those
\* below a call without the pure flag, which optimize does not descend into.
C12_FoldableOnlyBelowImpure ==
    pc = "ready" => Foldable(heap, root) \subseteq BelowImpure(heap, root)

\* "g(2+2)" was compiled: the tree is g over the sum of two constants, no
\* node freed.
C12_Witness ==
    /\ pc = "ready"
    /\ expression = <<"g", "(", "2", "+", "2", ")">>
    /\ heap[root].function = "host_g"
    /\ Foldable(heap, root) = { heap[root].parameters[1] }
    /\ heap[heap[root].parameters[1]].function = "add"
    /\ \A k \in 1..Len(heap) : heap[k].freed = 0

(***************************************************************************)
(* The order of evaluation: expressions over n, a closure of the host that *)
(* counts its calls in y, and y itself.                                    *)
(***************************************************************************)
HostCounter ==
    << [name |-> <<"n">>, address |-> "host_next", type |-> TE_CLOSURE0, context |-> "&y"],
       Variable(<<"y">>, "&y") >>

WordsOrder == { <<"n">>, <<"y">>, <<"-">>, <<"*">> }

InitOrder == InitWith(WordsOrder, MaxLenOrder, {HostCounter}, {0}, {FALSE})

\* The orders of evaluation of a build, one for each number of parameters
\* that occurs in the tree.
Orders(h) ==
    { o \in [{ ARITY(h[k].type) : k \in 1..Len(h) } ->
                UNION { ArgumentOrders(ARITY(h[k].type)) : k \in 1..Len(h) }] :
        \A a \in DOMAIN o : o[a] \in ArgumentOrders(a) }

\* result = te_eval(root), the callees writing the host's doubles.
EvalIn ==
    /\ pc = "ready"
    /\ \A c \in Cells : Lt(mem[c], Num(MaxCount))
    /\ \E order \in Orders(heap) :
          /\ result' = te_eval_in(heap, mem, root, order).value
          /\ mem' = te_eval_in(heap, mem, root, order).m
    /\ evalMem' = mem
    /\ UNCHANGED << TE_POW_FROM_RIGHT, words, maxlen, typed, lookup, fails, fail_at, pc,
                    heap, root, error, call >>

NextOrder ==
    \/ \E w \in words : Type(w)
    \/ Compile
    \/ EvalIn
    \/ Free

SpecOrder == InitOrder /\ [][NextOrder]_vars

\* Every call in the tree evaluating its arguments from the first to the last.
AllLeftToRight(h) == [a \in { ARITY(h[k].type) : k \in 1..Len(h) } |-> LeftToRight(a)]

(***************************************************************************)
(* C13: te_eval evaluates the children of a call in the order 0, 1, ...,   *)
(* N-1 and then calls the function: what it returns, and what the callees  *)
(* have written by then, is what the evaluation from left to right gives.  *)
(***************************************************************************)
C13_LeftToRightEvaluation ==
    (pc = "ready" /\ result # NoResult)
        => /\ result = te_eval_in(heap, evalMem, root, AllLeftToRight(heap)).value
           /\ mem = te_eval_in(heap, evalMem, root, AllLeftToRight(heap)).m

\* Whatever the order, every argument is evaluated once before the call:
\* the counter has advanced by the number of calls of n in the tree.
C13_EachArgumentOnce ==
    (pc = "ready" /\ result # NoResult)
        => mem["&y"] =
              add(evalMem["&y"],
                  Num(Cardinality({ k \in Nodes(heap, root) :
                                      heap[k].function = "host_next" })))

\* "n-n" was evaluated with y at 3 by a build that evaluates the second
\* argument first: 5 - 4, where left to right is 4 - 5.
C13_Witness ==
    /\ pc = "ready"
    /\ expression = <<"n", "-", "n">>
    /\ evalMem["&y"] = Num(3)
    /\ mem["&y"] = Num(5)
    /\ result = Num(1)
    /\ te_eval_in(heap, evalMem, root, AllLeftToRight(heap)).value = Num(-1)

(***************************************************************************)
(* Built-in names: names of the table, the characters that extend one      *)
(* name into another or into no name, and an operand, with no caller       *)
(* bindings.                                                               *)
(***************************************************************************)
WordsBuiltin ==
    { <<"s","i","n">>, <<"a","t","a","n">>, <<"l","o","g">>, <<"l","n">>, <<"e">>,
      <<"h">>, <<"2">>, <<"1","0">>, <<" ","e">> }

InitBuiltin == InitWith(WordsBuiltin, MaxLenBuiltin, {<<>>}, {0}, {FALSE})

SpecBuiltin == InitBuiltin /\ [][Next]_vars

\* The entries of the table whose name is id.
EntriesNamed(id) == { j \in 1..Len(functions) : functions[j].name = id }

\* The len characters of the expression from offset p.
Slice(p, len) == SubSeq(expression, p + 1, p + len)

(***************************************************************************)
(* C14: for every identifier, find_builtin returns an entry of the table   *)
(* exactly when that entry's name is the identifier, character for         *)
(* character and of the same length, and nothing when no entry has that    *)
(* name; each of the 24 names of the table is found.                       *)
(***************************************************************************)
C14_BuiltinLookupExact ==
    /\ \A p \in 0..(Len(expression) - 1) :
          \A len \in 1..(Len(expression) - p) :
              IF EntriesNamed(Slice(p, len)) = {}
              THEN find_builtin(expression, p, len) = NULL
              ELSE find_builtin(expression, p, len) \in EntriesNamed(Slice(p, len))
    /\ Len(functions) = 24
    /\ \A j \in 1..Len(functions) :
          /\ find_builtin(functions[j].name, 0, Len(functions[j].name)) = j
          /\ EntriesNamed(functions[j].name) = {j}

\* "sinh e" was compiled: sin, its prefix si and its extension sinh are
\* looked up in it, and the tree was that of sinh.
C14_Witness ==
    /\ pc = "ready"
    /\ expression = <<"s", "i", "n", "h", " ", "e">>
    /\ find_builtin(expression, 0, 2) = NULL
    /\ functions[find_builtin(expression, 0, 3)].address = "sin"
    /\ functions[find_builtin(expression, 0, 4)].address = "sinh"
    /\ Unoptimized.s.heap[Unoptimized.ret].function = "sinh"

(***************************************************************************)
(* The shape of trees: what the parse built, what te_compile returned.     *)
(***************************************************************************)
\* The nodes of h that base made for an operand that is missing.
Placeholders(h) == { n \in 1..Len(h) : h[n].type = 0 /\ h[n].value = NAN }

RECURSIVE WellFormed(_, _)
\* The tree at n has a node in every child slot and no placeholder.
WellFormed(h, n) ==
    /\ n # NULL
    /\ n \notin Placeholders(h)
    /\ \A i \in 1..ARITY(h[n].type) : WellFormed(h, h[n].parameters[i])

\* The nodes of h as they are but for the count of their frees.
Unfreed(h) == [n \in 1..Len(h) |-> [h[n] EXCEPT !.freed = 0]]

(***************************************************************************)
(* C16: the tree handed to optimize and the tree te_compile returns are    *)
(* well-formed: every function or closure node of arity N has N children   *)
(* that are not NULL and no node is the placeholder of a missing operand.  *)
(* A parse that made a node with an empty child slot or a placeholder ends *)
(* in failure: te_compile returns no tree, every node is freed once, no    *)
(* node was rewritten by optimize and nothing is evaluated.                *)
(***************************************************************************)
C16_ReturnedTreesWellFormed ==
    /\ pc = "ready"
          => /\ WellFormed(Unoptimized.s.heap, Unoptimized.ret)
             /\ root = Unoptimized.ret
             /\ WellFormed(heap, root)
    /\ (Compiled /\ PartiallyFilled(Unoptimized.s.heap) \cup Placeholders(Unoptimized.s.heap) # {})
          => /\ pc = "failed"
             /\ root = NULL
             /\ error # 0
             /\ Unfreed(heap) = Unfreed(Unoptimized.s.heap)
             /\ \A n \in 1..Len(heap) : heap[n].freed = 1
             /\ result = NoResult

\* "g(1)" was compiled: the tree returned is g over a constant, and no node
\* of the parse has an empty slot or is a placeholder.
C16_Witness ==
    /\ pc = "ready"
    /\ fail_at = 0
    /\ expression = <<"g", "(", "1", ")">>
    /\ ARITY(heap[root].type) = 1
    /\ heap[root].parameters[1] # NULL
    /\ heap[heap[root].parameters[1]].type = TE_CONSTANT
    /\ PartiallyFilled(heap) \cup Placeholders(heap) = {}

\* "k(1,1)" was compiled: the node of k had its third slot empty, and was
\* freed with its two children; "1-" was compiled: the placeholder was freed.
C16_EmptySlotFreed ==
    /\ pc = "failed"
    /\ fail_at = 0
    /\ expression = <<"k", "(", "1", ",", "1", ")">>
    /\ PartiallyFilled(heap) # {}
    /\ \A n \in 1..Len(heap) : heap[n].freed = 1

C16_PlaceholderFreed ==
    /\ pc = "failed"
    /\ fail_at = 0
    /\ expression = <<"1", "-">>
    /\ Placeholders(heap) # {}
    /\ \A n \in 1..Len(heap) : heap[n].freed = 1

====
